---- MODULE Spec2Model ----
(***************************************************************************)
(* A model of hashicorp/mql: the rune-level lexer of lex.go (a state       *)
(* machine of lexStateFuncs driven by nextToken), the expression tree of   *)
(* expr.go, the options, and the compilation of an expression tree into a  *)
(* WhereClause.                                                            *)
(*                                                                         *)
(* Text is a sequence of runes; a rune is a one-character string.  Fixed   *)
(* program text (operator text, column names, message prefixes) is kept    *)
(* as one element of such a sequence.                                      *)
(***************************************************************************)
EXTENDS Integers, Sequences, FiniteSets, TLC

VARIABLES
    l,      \* the lexer under test (lex.go: type lexer)
    out,    \* the results of the nextToken calls made on l so far, in order, each
            \* with the lexer's state (st) and the reader's offset (from) before
            \* the call and the reader's offset after it (to)
    e,      \* the expression tree handed to the compiler
    opts,   \* the list of Options the caller passed
    res     \* what Parse/exprToWhereClause returned, or NotRun

vars == <<l, out, e, opts, res>>

(***************************************************************************)
(* Bounds of the model.                                                    *)
(***************************************************************************)
MaxPieces == 3   \* an input is the concatenation of at most MaxPieces pieces
MaxCalls == 4    \* nextToken calls made on one lexer
MaxLeaves == 3   \* comparisons in a tree the parser gives
MaxDirectLeaves == 2   \* comparisons in a tree built by hand
MaxQueryPieces == 4   \* a query is the concatenation of at most MaxQueryPieces pieces
MaxOperands == 3   \* operands in a chain a op1 b op2 c
MaxOptions == 3   \* Options passed to one getOpts
MaxOpLen == 3   \* runes in a string handed to newComparisonOp or newLogicalOp
MaxPairPieces == 2   \* pieces in the input of each of two lexers
MaxPairCalls == 2   \* nextToken calls made on each of two lexers
MaxCursorPieces == 2   \* a cursor's buffer is the concatenation of at most MaxCursorPieces pieces
MaxCursorOps == 4   \* calls made on one cursor
MaxSpacePieces == 3   \* pieces in an input made of whitespace and text
MaxParens == 3   \* pairs of parens put around a comparison

(***************************************************************************)
(* Runes.                                                                  *)
(***************************************************************************)
\* what read() returns once the source is exhausted (lex.go: eof)
eof == "EOF"

DQuote == "\""
Backslash == "\\"

\* The pieces inputs are made of: the spellings of the keywords in several
\* letter cases, a quoted keyword, a plain letter, every rune the lexer
\* treats specially, and "!=".
Pieces ==
    { <<"a", "n", "d">>, <<"A", "n", "d">>, <<"A", "N", "D">>,
      <<"o", "r">>, <<"O", "R">>, <<DQuote, "o", "r", DQuote>>, <<"x">>,
      <<DQuote>>, <<Backslash>>, <<" ">>,
      <<"!">>, <<"!", "=">>, <<"=">>, <<">">>, <<"<">>, <<"%">>, <<"(">>, <<")">> }

\* lex.go: isSpace
isSpace(r) == r \in {" ", "\t", "\r", "\n"}

\* isSpecial without the "%"
isSpecial_NoPercent(r) == r \in {"=", ">", "!", "<", "(", ")"}

\* lex.go: isSpecial
isSpecial(r) == r \in {"=", ">", "!", "<", "(", ")", "%"}

\* strings.ToLower on one rune
ToLowerRune(r) ==
    CASE r = "A" -> "a"
      [] r = "N" -> "n"
      [] r = "D" -> "d"
      [] r = "O" -> "o"
      [] r = "R" -> "r"
      [] r = "X" -> "x"
      [] OTHER -> r

\* ToLower with the lower-casing forgotten
ToLower_AsWritten(s) == s

\* strings.ToLower
ToLower(s) == [i \in 1..Len(s) |-> ToLowerRune(s[i])]

RECURSIVE Concat(_)
\* the concatenation of a sequence of texts
Concat(ss) == IF ss = <<>> THEN <<>> ELSE Head(ss) \o Concat(Tail(ss))

\* the sequences over S of length at most n
SeqsUpTo(S, n) == UNION {[1..k -> S] : k \in 0..n}

\* the inputs the lexer is run on
Inputs == {Concat(ps) : ps \in SeqsUpTo(Pieces, MaxPieces)}

\* t occurs in s as a contiguous run
Contains(s, t) ==
    \E i \in 0..(Len(s) - Len(t)) : \A j \in 1..Len(t) : s[i + j] = t[j]

(***************************************************************************)
(* stack.go                                                                *)
(***************************************************************************)
push(s, v) == Append(s, v)

pop(s) == IF Len(s) > 0 THEN SubSeq(s, 1, Len(s) - 1) ELSE s

\* runesToString prepends each rune to the result
runesToString(s) == [i \in 1..Len(s) |-> s[Len(s) + 1 - i]]

(***************************************************************************)
(* Tokens and errors.                                                      *)
(***************************************************************************)
NoErr == [kind |-> "nil", msg |-> <<>>]

\* fmt's %q on a string of runes: quoted, with the quote and the backslash
\* escaped by a backslash
RECURSIVE QuoteRunes(_)
QuoteRunes(s) ==
    IF s = <<>> THEN <<>>
    ELSE (IF Head(s) \in {DQuote, Backslash}
          THEN <<Backslash, Head(s)>> ELSE <<Head(s)>>) \o QuoteRunes(Tail(s))

Quote(s) == <<DQuote>> \o QuoteRunes(s) \o <<DQuote>>

\* the error lexNotEqualState builds
InvalidNotEqualErr(nextRune) ==
    [kind |-> "ErrInvalidNotEqual",
     msg |-> <<"mql.lexNotEqualState", ": ", "invalid \"!=\" token", ", got ">>
             \o Quote(<<"!">> \o <<nextRune>>)]

Token(t, v) == [Type |-> t, Value |-> v]

\* token{}: what nextToken returns next to an error
ZeroToken == Token("zero", <<>>)

(***************************************************************************)
(* The lexer: lex.go                                                       *)
(***************************************************************************)
TokenChanCap == 1

newLexer(s) ==
    [source |-> s,         \* the text behind the bufio.Reader
     off |-> 0,            \* runes the reader has delivered
     canUnread |-> FALSE,  \* the reader's last operation was a successful ReadRune
     current |-> <<>>,
     tokens |-> <<>>,
     state |-> "lexStartState",
     blocked |-> FALSE,    \* a send on the full token channel never returns
     lastOp |-> "none",    \* which of read() and unread() was called last
     unpaired |-> FALSE]   \* unread() was called when the last call was not read()

\* the rune read() returns
readRune(lx) == IF lx.off < Len(lx.source) THEN lx.source[lx.off + 1] ELSE eof

\* the lexer after read()
read(lx) ==
    IF lx.off < Len(lx.source)
    THEN [lx EXCEPT !.off = lx.off + 1, !.canUnread = TRUE,
                    !.current = push(lx.current, lx.source[lx.off + 1]),
                    !.lastOp = "read"]
    ELSE [lx EXCEPT !.canUnread = FALSE, !.lastOp = "read"]

\* an unread that steps back whatever the reader's last operation was
unread_Always(lx) ==
    [lx EXCEPT !.off = IF lx.off > 0 THEN lx.off - 1 ELSE 0, !.canUnread = FALSE,
               !.current = pop(lx.current),
               !.lastOp = "unread", !.unpaired = lx.unpaired \/ lx.lastOp # "read"]

\* the lexer after unread(): UnreadRune fails, and is ignored, unless the
\* reader's last operation was a successful ReadRune; the pop happens anyway
unread(lx) ==
    IF lx.canUnread
    THEN [lx EXCEPT !.off = lx.off - 1, !.canUnread = FALSE,
                    !.current = pop(lx.current),
                    !.lastOp = "unread", !.unpaired = lx.unpaired \/ lx.lastOp # "read"]
    ELSE [lx EXCEPT !.current = pop(lx.current),
                    !.lastOp = "unread", !.unpaired = lx.unpaired \/ lx.lastOp # "read"]

emit(lx, t, v) ==
    IF Len(lx.tokens) < TokenChanCap
    THEN [lx EXCEPT !.tokens = Append(lx.tokens, Token(t, v))]
    ELSE [lx EXCEPT !.blocked = TRUE]

\* a clear that leaves the stack as it is
clear_Nothing(lx) == lx

clear(lx) == [lx EXCEPT !.current = <<>>]

\* what a lexStateFunc returns, with the lexer as it leaves it
Ret(lx, next, err) == [l |-> lx, next |-> next, err |-> err]

lexStartState(lx) ==
    LET r == readRune(lx)
        l1 == read(lx)
    IN  CASE r = eof -> Ret(emit(l1, "eofToken", <<>>), "lexEofState", NoErr)
          [] r = ">" -> Ret(l1, "lexGreaterState", NoErr)
          [] r = "<" -> Ret(l1, "lexLesserState", NoErr)
          [] r = "%" -> Ret(l1, "lexContainsState", NoErr)
          [] r = "=" -> Ret(l1, "lexEqualState", NoErr)
          [] r = "!" -> Ret(l1, "lexNotEqualState", NoErr)
          [] r = ")" -> Ret(l1, "lexRightParenState", NoErr)
          [] r = "(" -> Ret(l1, "lexLeftParenState", NoErr)
          [] isSpace(r) -> Ret(l1, "lexWhitespaceState", NoErr)
          [] OTHER -> Ret(unread(l1), "lexStringState", NoErr)

RECURSIVE WriteToBuf(_, _, _)
\* the WriteToBuf loop of lexStringState: the lexer and the buffer after it
WriteToBuf(lx, buf, quotedString) ==
    LET r == readRune(lx)
        l1 == read(lx)
    IN  CASE r = eof -> [l |-> l1, buf |-> buf]
          [] r = DQuote /\ quotedString -> [l |-> l1, buf |-> buf]
          [] (isSpace(r) \/ isSpecial(r)) /\ ~quotedString ->
                [l |-> unread(l1), buf |-> buf]
          [] OTHER -> WriteToBuf(l1, Append(buf, r), quotedString)

\* lexStringState that unreads without having read: the rune lexStartState
\* put back is taken to be the one to put back
lexStringState_NoRead(lx) ==
    LET r == readRune(lx)
        quotedString == (r = DQuote)
        l1 == IF quotedString THEN read(lx) ELSE unread(lx)
        w == WriteToBuf(l1, <<>>, quotedString)
    IN  Ret(clear(emit(w.l, "stringToken", w.buf)), "lexStartState", NoErr)

lexStringState(lx) ==
    LET r == readRune(lx)
        quotedString == (r = DQuote)
        l1 == IF quotedString THEN read(lx) ELSE unread(read(lx))
        w == WriteToBuf(l1, <<>>, quotedString)
        low == ToLower(w.buf)
    IN  CASE ~quotedString /\ low = <<"a", "n", "d">> ->
                Ret(clear(emit(w.l, "andToken", <<"a", "n", "d">>)), "lexStartState", NoErr)
          [] ~quotedString /\ low = <<"o", "r">> ->
                Ret(clear(emit(w.l, "orToken", <<"o", "r">>)), "lexStartState", NoErr)
          [] OTHER ->
                Ret(clear(emit(w.l, "stringToken", w.buf)), "lexStartState", NoErr)

lexContainsState(lx) ==
    Ret(clear(emit(lx, "containsToken", <<"%">>)), "lexStartState", NoErr)

\* lexEqualState sending its token twice
lexEqualState_EmitsTwice(lx) ==
    Ret(clear(emit(emit(lx, "equalToken", <<"=">>), "equalToken", <<"=">>)),
        "lexStartState", NoErr)

lexEqualState(lx) ==
    Ret(clear(emit(lx, "equalToken", <<"=">>)), "lexStartState", NoErr)

\* lexNotEqualState taking whatever follows the "!" for the "="
lexNotEqualState_AnyRune(lx) ==
    Ret(clear(emit(read(lx), "notEqualToken", <<"!", "=">>)), "lexStartState", NoErr)

lexNotEqualState(lx) ==
    LET nextRune == readRune(lx)
        l1 == read(lx)
    IN  IF nextRune = "="
        THEN Ret(clear(emit(l1, "notEqualToken", <<"!", "=">>)), "lexStartState", NoErr)
        ELSE Ret(clear(l1), "nil", InvalidNotEqualErr(nextRune))

lexLeftParenState(lx) ==
    Ret(clear(emit(lx, "startLogicalExprToken", runesToString(lx.current))),
        "lexStartState", NoErr)

lexRightParenState(lx) ==
    Ret(clear(emit(lx, "endLogicalExprToken", runesToString(lx.current))),
        "lexStartState", NoErr)

RECURSIVE ReadWhitespace(_)
\* the ReadWhitespace loop of lexWhitespaceState
ReadWhitespace(lx) ==
    LET ch == readRune(lx)
        l1 == read(lx)
    IN  CASE ch = eof -> l1
          [] ~isSpace(ch) -> unread(l1)
          [] OTHER -> ReadWhitespace(l1)

\* lexWhitespaceState without the ReadWhitespace loop
lexWhitespaceState_OneRune(lx) ==
    Ret(clear(emit(lx, "whitespaceToken", <<>>)), "lexStartState", NoErr)

lexWhitespaceState(lx) ==
    Ret(clear(emit(ReadWhitespace(lx), "whitespaceToken", <<>>)), "lexStartState", NoErr)

\* lexGreaterState without the unread of the rune that is not "="
lexGreaterState_NoUnread(lx) ==
    LET next == readRune(lx)
        l1 == read(lx)
    IN  IF next = "="
        THEN Ret(clear(emit(l1, "greaterThanOrEqualToken", <<">", "=">>)),
                 "lexStartState", NoErr)
        ELSE Ret(clear(emit(l1, "greaterThanToken", <<">">>)), "lexStartState", NoErr)

lexGreaterState(lx) ==
    LET next == readRune(lx)
        l1 == read(lx)
    IN  IF next = "="
        THEN Ret(clear(emit(l1, "greaterThanOrEqualToken", <<">", "=">>)),
                 "lexStartState", NoErr)
        ELSE Ret(clear(emit(unread(l1), "greaterThanToken", <<">">>)),
                 "lexStartState", NoErr)

lexLesserState(lx) ==
    LET next == readRune(lx)
        l1 == read(lx)
    IN  IF next = "="
        THEN Ret(clear(emit(l1, "lessThanOrEqualToken", <<"<", "=">>)),
                 "lexStartState", NoErr)
        ELSE Ret(clear(emit(unread(l1), "lessThanToken", <<"<">>)),
                 "lexStartState", NoErr)

\* lexEofState returning no next state
lexEofState_NoNextState(lx) == Ret(emit(lx, "eofToken", <<>>), "nil", NoErr)

lexEofState(lx) == Ret(emit(lx, "eofToken", <<>>), "lexEofState", NoErr)

\* l.state(l), for a state that is not nil
RunState(lx) ==
    CASE lx.state = "lexStartState" -> lexStartState(lx)
      [] lx.state = "lexStringState" -> lexStringState(lx)
      [] lx.state = "lexContainsState" -> lexContainsState(lx)
      [] lx.state = "lexEqualState" -> lexEqualState(lx)
      [] lx.state = "lexNotEqualState" -> lexNotEqualState(lx)
      [] lx.state = "lexLeftParenState" -> lexLeftParenState(lx)
      [] lx.state = "lexRightParenState" -> lexRightParenState(lx)
      [] lx.state = "lexWhitespaceState" -> lexWhitespaceState(lx)
      [] lx.state = "lexGreaterState" -> lexGreaterState(lx)
      [] lx.state = "lexLesserState" -> lexLesserState(lx)
      [] lx.state = "lexEofState" -> lexEofState(lx)

\* how a nextToken call ends: "token" (a token and a nil error), "error" (the
\* zero token and an error), "panic" (the call of a nil lexStateFunc) or
\* "blocked" (a send on the full channel)
Result(lx, kind, tk, err) == [l |-> lx, kind |-> kind, tk |-> tk, err |-> err]

RECURSIVE nextToken(_)
nextToken(lx) ==
    IF lx.tokens # <<>>
    THEN Result([lx EXCEPT !.tokens = Tail(lx.tokens)], "token", Head(lx.tokens), NoErr)
    ELSE IF lx.state = "nil"
    THEN Result(lx, "panic", ZeroToken, NoErr)
    ELSE LET r == RunState(lx)
             l1 == [r.l EXCEPT !.state = r.next]
         IN  IF l1.blocked THEN Result(l1, "blocked", ZeroToken, NoErr)
             ELSE IF r.err # NoErr THEN Result(l1, "error", ZeroToken, r.err)
             ELSE nextToken(l1)

(***************************************************************************)
(* The expression tree (expr.go).                                          *)
(***************************************************************************)
\* a *string
Ptr(s) == [isNil |-> FALSE, str |-> s]
NilPtr == [isNil |-> TRUE, str |-> <<>>]

greaterThanOp == <<">">>
greaterThanOrEqualOp == <<">", "=">>
lessThanOp == <<"<">>
lessThanOrEqualOp == <<"<", "=">>
equalOp == <<"=">>
notEqualOp == <<"!", "=">>
\* a contains operator with another spelling
containsOp_Tilde == <<"~">>
containsOp == <<"%">>

\* newComparisonOp without the switch over the seven constants
newComparisonOp_Any(s) == [op |-> s, err |-> NoErr]

newComparisonOp(s) ==
    IF s \in {greaterThanOp, greaterThanOrEqualOp, lessThanOp, lessThanOrEqualOp,
              equalOp, notEqualOp, containsOp}
    THEN [op |-> s, err |-> NoErr]
    ELSE [op |-> <<>>,
          err |-> [kind |-> "ErrInvalidComparisonOp",
                   msg |-> <<"newComparisonOp", ": ">> \o Quote(s)]]

comparisonExpr(column, op, value) ==
    [type |-> "comparisonExpr", column |-> column, comparisonOp |-> op, value |-> value]

andOp == <<"a", "n", "d">>
orOp == <<"o", "r">>

\* newLogicalOp without the comparison of s against the two constants
newLogicalOp_AnyCase(s) == [op |-> s, err |-> NoErr]

newLogicalOp(s) ==
    IF s \in {andOp, orOp}
    THEN [op |-> s, err |-> NoErr]
    ELSE [op |-> <<>>,
          err |-> [kind |-> "ErrInvalidLogicalOp",
                   msg |-> <<"newLogicalOp", ": ">> \o Quote(s)]]

logicalExpr(left, op, right) ==
    [type |-> "logicalExpr", leftExpr |-> left, logicalOp |-> op, rightExpr |-> right]

(***************************************************************************)
(* The options (options.go).  An Option is a closure over its arguments;   *)
(* it is kept as the record of its name and arguments, and the operator of *)
(* the same name is the closure's body: from the options before the call   *)
(* to the options after it and the error.                                  *)
(***************************************************************************)
EmptyMap == [k \in {} |-> <<>>]
\* a map[string]string as an argument: nil, or its keys and values
Map(kv) == [isNil |-> FALSE, kv |-> kv]
NilMap == [isNil |-> TRUE, kv |-> EmptyMap]

getDefaultOptions ==
    [withSkipWhitespace |-> FALSE,
     withColumnMap |-> EmptyMap,
     withValidateConvertFn |-> "nil",
     withValidateConvertColumn |-> <<>>,
     withIgnoredFields |-> <<>>,
     withPgPlaceholder |-> FALSE]

InvalidParameter(op, msg) == [kind |-> "ErrInvalidParameter", msg |-> <<op, ": ", msg>>]

WithColumnMap(m, o) ==
    [opts |-> IF ~m.isNil THEN [o EXCEPT !.withColumnMap = m.kv] ELSE o, err |-> NoErr]

\* a WithConverter that takes whatever it is given
WithConverter_Unchecked(fieldName, fn, o) ==
    [opts |-> [o EXCEPT !.withValidateConvertFn = fn, !.withValidateConvertColumn = fieldName],
     err |-> NoErr]

WithConverter(fieldName, fn, o) ==
    IF fieldName # <<>> /\ fn # "nil"
    THEN [opts |-> [o EXCEPT !.withValidateConvertFn = fn,
                             !.withValidateConvertColumn = fieldName],
          err |-> NoErr]
    ELSE IF fieldName = <<>> /\ fn # "nil"
    THEN [opts |-> o, err |-> InvalidParameter("mql.WithSqlConverter", "missing field name")]
    ELSE IF fieldName # <<>> /\ fn = "nil"
    THEN [opts |-> o,
          err |-> InvalidParameter("mql.WithSqlConverter", "missing ConvertToSqlFunc")]
    ELSE [opts |-> o, err |-> NoErr]

\* an Option that ignores no field
WithIgnoredFields_Nothing(fieldName, o) == [opts |-> o, err |-> NoErr]

WithIgnoredFields(fieldName, o) ==
    [opts |-> IF Len(fieldName) > 0 THEN [o EXCEPT !.withIgnoredFields = fieldName] ELSE o,
     err |-> NoErr]

\* an Option that leaves the options as they are
WithPgPlaceholders_Unset(o) == [opts |-> o, err |-> NoErr]

WithPgPlaceholders(o) == [opts |-> [o EXCEPT !.withPgPlaceholder = TRUE], err |-> NoErr]

\* the Options as values
OptColumnMap(m) == [option |-> "WithColumnMap", m |-> m]
OptConverter(fieldName, fn) == [option |-> "WithConverter", fieldName |-> fieldName, fn |-> fn]
OptIgnoredFields(fieldName) == [option |-> "WithIgnoredFields", fieldName |-> fieldName]
OptPgPlaceholders == [option |-> "WithPgPlaceholders"]

\* o(&opts)
CallOption(opt, o) ==
    CASE opt.option = "WithColumnMap" -> WithColumnMap(opt.m, o)
      [] opt.option = "WithConverter" -> WithConverter(opt.fieldName, opt.fn, o)
      [] opt.option = "WithIgnoredFields" -> WithIgnoredFields(opt.fieldName, o)
      [] opt.option = "WithPgPlaceholders" -> WithPgPlaceholders(o)

RECURSIVE ApplyOptions(_, _)
\* the loop of getOpts: it stops at the first Option that fails
ApplyOptions(opt, o) ==
    IF opt = <<>> THEN [opts |-> o, err |-> NoErr]
    ELSE LET r == CallOption(Head(opt), o)
         IN  IF r.err # NoErr THEN r ELSE ApplyOptions(Tail(opt), r.opts)

getOpts(opt) == ApplyOptions(opt, getDefaultOptions)

(***************************************************************************)
(* The compiler: the model's fields, the validators, the conversion of a   *)
(* comparison and the walk over the tree.                                  *)
(***************************************************************************)
\* the fields of the model struct, by Go name, and their types
ModelFields ==
    << [name |-> <<"N", "a", "m", "e">>, typ |-> "string"],
       [name |-> <<"A", "g", "e">>, typ |-> "int"] >>

InSeq(x, s) == \E i \in 1..Len(s) : s[i] = x

\* the validator table: lower-cased field name -> index of the field, without
\* the ignored fields
fieldValidators(o) ==
    LET kept == {i \in 1..Len(ModelFields) :
                    ~InSeq(ModelFields[i].name, o.withIgnoredFields)}
    IN  [k \in {ToLower(ModelFields[i].name) : i \in kept} |->
            (CHOOSE i \in kept : ToLower(ModelFields[i].name) = k)]

NilWhereClause == [isNil |-> TRUE, Condition |-> <<>>, Args |-> <<>>]
WhereClause(cond, args) == [isNil |-> FALSE, Condition |-> cond, Args |-> args]

\* a bound value: a string or an int
StrArg(s) == [typ |-> "string", str |-> s, num |-> 0]
IntArg(n) == [typ |-> "int", str |-> <<>>, num |-> n]

Compiled(wc) == [wc |-> wc, err |-> NoErr]
Failed(kind, msg) == [wc |-> NilWhereClause, err |-> [kind |-> kind, msg |-> <<msg>>]]

DigitRunes == <<"0", "1", "2", "3", "4", "5", "6", "7", "8", "9">>
IsDigit(r) == \E n \in 1..Len(DigitRunes) : DigitRunes[n] = r
DigitVal(r) == (CHOOSE n \in 1..Len(DigitRunes) : DigitRunes[n] = r) - 1

IsInt(s) == s # <<>> /\ \A i \in 1..Len(s) : IsDigit(s[i])

RECURSIVE Atoi(_)
Atoi(s) == IF s = <<>> THEN 0 ELSE 10 * Atoi(SubSeq(s, 1, Len(s) - 1)) + DigitVal(s[Len(s)])

Placeholder == <<"?">>

\* the custom converter of the tests: it marks the condition and the value
TaggedConverter(columnName, op, value) ==
    Compiled(WhereClause(<<"c", ":">> \o columnName \o op \o Placeholder,
                         <<StrArg(<<"c", ":">> \o value.str)>>))

\* another converter of a caller's
OtherConverter(columnName, op, value) ==
    Compiled(WhereClause(<<"o", ":">> \o columnName \o op \o Placeholder,
                         <<StrArg(<<"o", ":">> \o value.str)>>))

\* fn(columnName, comparisonOp, value)
CallConverter(fn, columnName, op, value) ==
    IF fn = "tagged" THEN TaggedConverter(columnName, op, value)
    ELSE OtherConverter(columnName, op, value)

\* a conversion that writes the value into the condition
defaultValidateConvert_Inlined(columnName, op, value, typ) ==
    IF columnName = <<>> \/ op = <<>> \/ value.isNil \/ (typ = "int" /\ ~IsInt(value.str))
    THEN Failed("ErrInvalidParameter", "invalid comparison")
    ELSE Compiled(WhereClause(columnName \o op \o <<"'">> \o value.str \o <<"'">>, <<>>))

\* the default conversion of one comparison on a known column
defaultValidateConvert(columnName, op, value, typ) ==
    IF columnName = <<>> THEN Failed("ErrMissingColumn", "missing column")
    ELSE IF op = <<>> THEN Failed("ErrMissingComparisonOp", "missing comparison operator")
    ELSE IF value.isNil THEN Failed("ErrMissingComparisonValue", "missing comparison value")
    ELSE IF typ = "int" /\ ~IsInt(value.str) THEN Failed("ErrInvalidParameter", "invalid value")
    ELSE IF op = containsOp
    THEN IF typ # "string"
         THEN Failed("ErrInvalidComparisonOp", "invalid comparison operator for the type")
         ELSE Compiled(WhereClause(columnName \o <<" ", "l", "i", "k", "e", " ">> \o Placeholder,
                                   <<StrArg(<<"%">> \o value.str \o <<"%">>)>>))
    ELSE Compiled(WhereClause(columnName \o op \o Placeholder,
                              <<IF typ = "int" THEN IntArg(Atoi(value.str))
                                ELSE StrArg(value.str)>>))

\* the compilation of a comparisonExpr
convertComparison(c, o) ==
    LET lowered == ToLower(c.column)
        columnName == IF lowered \in DOMAIN o.withColumnMap
                      THEN o.withColumnMap[lowered] ELSE lowered
        validators == fieldValidators(o)
    IN  IF columnName \notin DOMAIN validators
        THEN Failed("ErrInvalidColumn", "invalid column")
        ELSE IF o.withValidateConvertFn # "nil" /\ o.withValidateConvertColumn = columnName
        THEN CallConverter(o.withValidateConvertFn, columnName, c.comparisonOp, c.value)
        ELSE defaultValidateConvert(columnName, c.comparisonOp, c.value,
                                    ModelFields[validators[columnName]].typ)

RECURSIVE walk_AnyOp(_, _)
\* a walk that joins the two sides with whatever operator the node holds
walk_AnyOp(x, o) ==
    CASE x.type = "nil" -> Failed("ErrInvalidParameter", "missing expression")
      [] x.type = "comparisonExpr" -> convertComparison(x, o)
      [] x.type = "logicalExpr" ->
            LET left == walk_AnyOp(x.leftExpr, o)
            IN  IF left.err # NoErr THEN Failed(left.err.kind, "invalid left expr")
                ELSE LET right == walk_AnyOp(x.rightExpr, o)
                     IN  IF right.err # NoErr
                         THEN Failed(right.err.kind, "invalid right expr")
                         ELSE Compiled(WhereClause(
                                <<"(">> \o left.wc.Condition \o <<" ">> \o x.logicalOp
                                    \o <<" ">> \o right.wc.Condition \o <<")">>,
                                left.wc.Args \o right.wc.Args))
      [] OTHER -> Failed("ErrInternal", "unexpected expr type")

\* a walk that hands back the left side when the right side fails
RECURSIVE walk_KeepsLeft(_, _)
walk_KeepsLeft(x, o) ==
    IF x.type = "comparisonExpr" THEN convertComparison(x, o)
    ELSE LET left == walk_KeepsLeft(x.leftExpr, o)
         IN  IF left.err # NoErr \/ x.logicalOp = <<>> THEN left
             ELSE LET right == walk_KeepsLeft(x.rightExpr, o)
                  IN  IF right.err # NoErr THEN [wc |-> left.wc, err |-> right.err]
                      ELSE Compiled(WhereClause(
                             <<"(">> \o left.wc.Condition \o <<" ">> \o x.logicalOp
                                 \o <<" ">> \o right.wc.Condition \o <<")">>,
                             left.wc.Args \o right.wc.Args))

RECURSIVE walk(_, _)
\* the walk of exprToWhereClause over the tree, with the options already read
walk(x, o) ==
    CASE x.type = "nil" -> Failed("ErrInvalidParameter", "missing expression")
      [] x.type = "comparisonExpr" -> convertComparison(x, o)
      [] x.type = "logicalExpr" ->
            LET left == walk(x.leftExpr, o)
            IN  IF left.err # NoErr THEN Failed(left.err.kind, "invalid left expr")
                ELSE IF x.logicalOp = <<>>
                THEN Failed("ErrMissingLogicalOp", "missing logical operator")
                ELSE LET right == walk(x.rightExpr, o)
                     IN  IF right.err # NoErr
                         THEN Failed(right.err.kind, "invalid right expr")
                         ELSE Compiled(WhereClause(
                                <<"(">> \o left.wc.Condition \o <<" ">> \o x.logicalOp
                                    \o <<" ">> \o right.wc.Condition \o <<")">>,
                                left.wc.Args \o right.wc.Args))
      [] OTHER -> Failed("ErrInternal", "unexpected expr type")

exprToWhereClause(x, opt) ==
    LET o == getOpts(opt)
    IN  IF x.type = "nil" THEN Failed("ErrInvalidParameter", "missing expression")
        ELSE IF o.err # NoErr THEN [wc |-> NilWhereClause, err |-> o.err]
        ELSE walk(x, o.opts)

\* "$n"
PgPlaceholder(n) == <<"$", DigitRunes[n + 1]>>

\* strings.Replace(s, "?", new, 1)
ReplaceFirst(s, new) ==
    IF \E i \in 1..Len(s) : s[i] = "?"
    THEN LET i == CHOOSE k \in 1..Len(s) : s[k] = "?" /\ \A j \in 1..(k - 1) : s[j] # "?"
         IN  SubSeq(s, 1, i - 1) \o new \o SubSeq(s, i + 1, Len(s))
    ELSE s

RECURSIVE Renumber(_, _, _)
\* the placeholders of cond numbered $i, $i+1, ... $n from the left
Renumber(cond, i, n) ==
    IF i > n THEN cond ELSE Renumber(ReplaceFirst(cond, PgPlaceholder(i)), i + 1, n)

\* Parse from the point where the parser has returned: parsed is the tree, or
\* the error, that parse() gave
Parse(parsed, opt) ==
    IF parsed.type = "parseError"
    THEN [wc |-> NilWhereClause, err |-> parsed.err]
    ELSE LET r == exprToWhereClause(parsed, opt)
             o == getOpts(opt)
         IN  IF r.err # NoErr THEN [wc |-> NilWhereClause, err |-> r.err]
             ELSE IF o.opts.withPgPlaceholder
             THEN Compiled(WhereClause(Renumber(r.wc.Condition, 1, Len(r.wc.Args)),
                                       r.wc.Args))
             ELSE r

(***************************************************************************)
(* The lexer's specification: a lexer on some input, and the calls of      *)
(* nextToken made on it.                                                   *)
(***************************************************************************)
NotRun == [kind |-> "notrun"]
NoExpr == [type |-> "nil"]
NoOpts == [none |-> TRUE]

Crashed == out # <<>> /\ out[Len(out)].kind \in {"panic", "blocked"}

Init ==
    /\ l \in {newLexer(s) : s \in Inputs}
    /\ out = <<>>
    /\ e = NoExpr
    /\ opts = NoOpts
    /\ res = NotRun

NextToken ==
    /\ Len(out) < MaxCalls
    /\ ~Crashed
    /\ LET r == nextToken(l)
       IN  /\ l' = r.l
           /\ out' = Append(out, [kind |-> r.kind, tk |-> r.tk, err |-> r.err,
                                   st |-> l.state, from |-> l.off, to |-> r.l.off])
    /\ UNCHANGED <<e, opts, res>>

Next == NextToken

Spec == Init /\ [][Next]_vars

(***************************************************************************)
(* The lexer on inputs of whitespace and text: the four whitespace runes,  *)
(* a letter, an operator and a double quote.                               *)
(***************************************************************************)
SpacePieces == {<<" ">>, <<"\t">>, <<"\r">>, <<"\n">>, <<"x">>, <<"=">>, <<DQuote>>}

SpaceInputs == {Concat(ps) : ps \in SeqsUpTo(SpacePieces, MaxSpacePieces)}

InitSpaces ==
    /\ l \in {newLexer(s) : s \in SpaceInputs}
    /\ out = <<>>
    /\ e = NoExpr
    /\ opts = NoOpts
    /\ res = NotRun

SpecSpaces == InitSpaces /\ [][Next]_vars

(***************************************************************************)
(* The compiler's specification: one call of Parse, on what the parser     *)
(* gave for some query, or one call of exprToWhereClause on a tree built   *)
(* by hand, under some list of options.                                    *)
(***************************************************************************)
name == <<"n", "a", "m", "e">>
age == <<"a", "g", "e">>
nick == <<"n", "i", "c", "k">>
seven == <<"7">>

\* the comparisons a query can hold
Leaves ==
    {comparisonExpr(t[1], newComparisonOp(t[2]).op, Ptr(t[3])) :
        t \in {<<name, equalOp, name>>,
               <<nick, containsOp, <<"x">>>>,
               <<<<"A", "g", "e">>, greaterThanOp, seven>>,
               <<age, equalOp, <<"x">>>>}}

\* comparisons that only a tree built by hand can hold
IncompleteLeaves ==
    {comparisonExpr(name, equalOp, NilPtr), comparisonExpr(name, <<>>, Ptr(seven))}

\* a contains comparison with an empty value, as nAme%"" gives it
ContainsLeaves == {comparisonExpr(<<"n", "A", "m", "e">>, <<"%">>, Ptr(<<>>))}

\* the operators newLogicalOp admits among the spellings tried
LogicalOps ==
    {newLogicalOp(s).op :
        s \in {t \in {andOp, orOp, <<"A", "N", "D">>} : newLogicalOp(t).err = NoErr}}

RECURSIVE TreesOf(_, _, _)
\* the trees of exactly n leaves
TreesOf(leaves, ops, n) ==
    IF n = 1 THEN leaves
    ELSE UNION {{logicalExpr(a, op, b) :
                    a \in TreesOf(leaves, ops, k), b \in TreesOf(leaves, ops, n - k),
                    op \in ops} : k \in 1..(n - 1)}

ParseError(err) == [type |-> "parseError", err |-> err]

\* what parse() can give: an error, or a complete tree
ParseOutcomes ==
    {ParseError(InvalidNotEqualErr("x")),
     ParseError([kind |-> "ErrMissingClosingParen", msg |-> <<"mql.(parser).parse">>]),
     ParseError(InvalidParameter("mql.Parse", "missing query"))}
        \cup UNION {TreesOf(Leaves, LogicalOps, n) : n \in 1..MaxLeaves}

\* what a caller in the package can hand to exprToWhereClause
DirectExprs ==
    {NoExpr} \cup UNION {TreesOf(Leaves \cup IncompleteLeaves \cup ContainsLeaves,
                                 LogicalOps \cup {<<>>}, n) :
                            n \in 1..MaxDirectLeaves}

NickMap == Map([k \in {nick} |-> name])

OptLists ==
    {<<>>,
     <<OptColumnMap(NickMap)>>,
     <<OptColumnMap(NickMap), OptPgPlaceholders>>,
     <<OptIgnoredFields(<<<<"A", "g", "e">>>>), OptColumnMap(NilMap)>>,
     <<OptConverter(name, "nil"), OptPgPlaceholders>>,
     <<OptConverter(name, "tagged")>>,
     <<OptConverter(name, "tagged"), OptConverter(age, "tagged"), OptConverter(name, "other")>>}

InitCompile ==
    /\ l = newLexer(<<>>)
    /\ out = <<>>
    /\ e = NoExpr
    /\ opts = <<>>
    /\ res = NotRun

RunParse ==
    /\ res = NotRun
    /\ \E parsed \in ParseOutcomes, opt \in OptLists :
          LET r == Parse(parsed, opt)
          IN  /\ e' = parsed
              /\ opts' = opt
              /\ res' = [kind |-> "Parse", wc |-> r.wc, err |-> r.err]
    /\ UNCHANGED <<l, out>>

RunExprToWhereClause ==
    /\ res = NotRun
    /\ \E x \in DirectExprs, opt \in OptLists :
          LET r == exprToWhereClause(x, opt)
          IN  /\ e' = x
              /\ opts' = opt
              /\ res' = [kind |-> "exprToWhereClause", wc |-> r.wc, err |-> r.err]
    /\ UNCHANGED <<l, out>>

NextCompile == RunParse \/ RunExprToWhereClause

SpecCompile == InitCompile /\ [][NextCompile]_vars

(***************************************************************************)
(* The parser.  root is expr.go's; parse, parseLogicalExpr and             *)
(* parseComparisonExpr read the tokens nextToken gives for the query.      *)
(***************************************************************************)
ParseErr(kind) == [kind |-> kind, msg |-> <<"mql.(parser).parse">>]

Parsed(x) == [expr |-> x, err |-> NoErr]
NotParsed(err) == [expr |-> NoExpr, err |-> err]

\* a loop that stops at the first logicalExpr without an operator
rootLoop_KeepsWrapper(lExpr) ==
    IF lExpr.logicalOp # <<>> THEN Parsed(lExpr)
    ELSE IF lExpr.leftExpr = NoExpr THEN NotParsed(ParseErr("ErrMissingExpr"))
    ELSE Parsed(lExpr)

RECURSIVE rootLoop(_)
\* the loop of root: for lExpr.logicalOp == ""
rootLoop(lExpr) ==
    IF lExpr.logicalOp # <<>> THEN Parsed(lExpr)
    ELSE IF lExpr.leftExpr = NoExpr THEN NotParsed(ParseErr("ErrMissingExpr"))
    ELSE IF lExpr.leftExpr.type = "comparisonExpr" THEN Parsed(lExpr.leftExpr)
    ELSE rootLoop(lExpr.leftExpr)

\* a root that looks for a missing right side at the end of its walk only
root_NoRightSideCheck(lExpr) ==
    IF lExpr = NoExpr THEN NotParsed(InvalidParameter("mql.root", "missing expression"))
    ELSE rootLoop(lExpr)

root(lExpr) ==
    IF lExpr = NoExpr THEN NotParsed(InvalidParameter("mql.root", "missing expression"))
    ELSE IF lExpr.logicalOp # <<>> /\ lExpr.rightExpr = NoExpr
    THEN NotParsed(ParseErr("ErrMissingRightSideExpr"))
    ELSE rootLoop(lExpr)

\* (e *comparisonExpr) isComplete
isComplete(c) == c.column # <<>> /\ c.comparisonOp # <<>> /\ c.value # NilPtr

\* a token as the parser holds it: the token, or the error nextToken gave
Scanned(tk, err) == [Type |-> tk.Type, Value |-> tk.Value, err |-> err]

\* F of v, with v computed once
With(v, F(_)) == CHOOSE y \in {F(x) : x \in {v}} : TRUE

RECURSIVE Lex(_)
\* what the calls of nextToken give for the query, up to eofToken or the first
\* call that does not return a token
Lex(lx) ==
    With(nextToken(lx), LAMBDA r :
        IF r.kind # "token" THEN <<Scanned(Token("none", <<>>), r.err)>>
        ELSE IF r.tk.Type = "eofToken" THEN <<Scanned(r.tk, NoErr)>>
        ELSE <<Scanned(r.tk, NoErr)>> \o Lex(r.l))

\* the parser: its tokens and the index of currentToken
newParser(s) == [raw |-> s, ts |-> Lex(newLexer(s)), i |-> 0]

currentToken(p) == p.ts[p.i]

\* scan: the next token becomes currentToken, past whitespace when asked;
\* after eofToken or a failed call there is nothing further
scan(p, skipWhitespace) ==
    LET j == IF p.i > 0 /\ p.ts[p.i].Type \in {"eofToken", "none"} THEN p.i ELSE p.i + 1
        k == IF skipWhitespace /\ p.ts[j].Type = "whitespaceToken" THEN j + 1 ELSE j
    IN  [p EXCEPT !.i = k]

ComparisonTokens ==
    {"greaterThanToken", "greaterThanOrEqualToken", "lessThanToken", "lessThanOrEqualToken",
     "equalToken", "notEqualToken", "containsToken"}

Got(x, p) == [expr |-> x, err |-> NoErr, p |-> p]
Stop(err, p) == [expr |-> NoExpr, err |-> err, p |-> p]

\* column ws? comparisonOp ws? value, from the column in currentToken
parseComparisonExpr(p) ==
    With(scan(p, TRUE), LAMBDA p1 :
    With(scan(p1, TRUE), LAMBDA p2 :
        LET column == currentToken(p).Value
            t1 == currentToken(p1)
            t2 == currentToken(p2)
            after == currentToken(scan(p2, FALSE))
        IN  IF t1.Type = "none" THEN Stop(t1.err, p1)
            ELSE IF t1.Type = "startLogicalExprToken"
            THEN Stop(ParseErr("ErrUnexpectedOpeningParen"), p1)
            ELSE IF t1.Type \notin ComparisonTokens
            THEN Stop(ParseErr("ErrMissingComparisonOp"), p1)
            ELSE IF t2.Type = "none" THEN Stop(t2.err, p2)
            ELSE IF t2.Type = "eofToken"
            THEN Got(comparisonExpr(column, newComparisonOp(t1.Value).op, NilPtr), p2)
            ELSE IF t2.Type = "startLogicalExprToken"
            THEN Stop(ParseErr("ErrUnexpectedOpeningParen"), p2)
            ELSE IF t2.Type # "stringToken" THEN Stop(ParseErr("ErrUnexpectedToken"), p2)
            ELSE IF after.Type = "startLogicalExprToken"
            THEN Stop(ParseErr("ErrUnexpectedOpeningParen"), p2)
            ELSE IF after.Type \in ComparisonTokens
            THEN Stop(ParseErr("ErrUnexpectedToken"), p2)
            ELSE Got(comparisonExpr(column, newComparisonOp(t1.Value).op, Ptr(t2.Value)),
                     p2)))

NoLogicalExpr == logicalExpr(NoExpr, <<>>, NoExpr)

\* an end of input that is content with parens still open
endOfQuery_AnyDepth(logicExpr, p, open) == Got(logicExpr, p)

\* eofToken: the query may not end inside a group
endOfQuery(logicExpr, p, open) ==
    IF open > 0 THEN Stop(ParseErr("ErrMissingClosingParen"), p)
    ELSE Got(logicExpr, p)

\* a closing paren that ends the expression whether or not a paren is open
closingParen_Unchecked(logicExpr, p, open) == Got(logicExpr, p)

\* endLogicalExprToken: it closes the group being read, which holds something
closingParen(logicExpr, p, open) ==
    IF open = 0 \/ logicExpr.leftExpr = NoExpr
    THEN Stop(ParseErr("ErrUnexpectedClosingParen"), p)
    ELSE Got(logicExpr, p)

\* an operand is taken wherever it stands
needsLogicalOp_Never(logicExpr) == FALSE

\* a left side is there and no logical operator has followed it
needsLogicalOp(logicExpr) == logicExpr.leftExpr # NoExpr /\ logicExpr.logicalOp = <<>>

\* a right side that is stored and not folded
withRightExpr_Flat(logicExpr, c) == [logicExpr EXCEPT !.rightExpr = c]

\* the comparison becomes the right side, and the whole the left side of a
\* new logicalExpr
withRightExpr(logicExpr, c) ==
    logicalExpr([logicExpr EXCEPT !.rightExpr = c], <<>>, NoExpr)

RECURSIVE parseLogicalExpr(_, _, _)
\* the loop of parseLogicalExpr: logicExpr is the expression under
\* construction, open the number of opening parens not yet closed; it ends at
\* the closing paren of the group it reads, or at eofToken
parseLogicalExpr(logicExpr, p, open) ==
    With(<<logicExpr, scan(p, TRUE)>>, LAMBDA a :
        LET lg == a[1]
            p1 == a[2]
            t == currentToken(p1)
        IN  CASE t.Type = "none" -> Stop(t.err, p1)
              [] t.Type = "eofToken" -> endOfQuery(lg, p1, open)
              [] t.Type = "endLogicalExprToken" -> closingParen(lg, p1, open)
              [] t.Type = "startLogicalExprToken" ->
                    IF needsLogicalOp(lg)
                    THEN Stop(ParseErr("ErrMissingLogicalOp"), p1)
                    ELSE With(parseLogicalExpr(NoLogicalExpr, p1, open + 1), LAMBDA g :
                         With(root(g.expr), LAMBDA x :
                             IF g.err # NoErr THEN g
                             ELSE IF x.err # NoErr THEN Stop(x.err, g.p)
                             ELSE IF lg.leftExpr = NoExpr
                             THEN parseLogicalExpr([lg EXCEPT !.leftExpr = x.expr], g.p, open)
                             ELSE \* a right side that opens with a paren is all that follows
                                  With(parseLogicalExpr(logicalExpr(x.expr, <<>>, NoExpr),
                                                        g.p, open), LAMBDA r :
                                  With(root(r.expr), LAMBDA y :
                                      IF r.err # NoErr THEN r
                                      ELSE IF y.err # NoErr THEN Stop(y.err, r.p)
                                      ELSE Got(logicalExpr(lg.leftExpr, lg.logicalOp, y.expr),
                                               r.p)))))
              [] t.Type = "stringToken" ->
                    IF needsLogicalOp(lg)
                    THEN Stop(ParseErr("ErrUnexpectedExpr"), p1)
                    ELSE With(parseComparisonExpr(p1), LAMBDA c :
                             IF c.err # NoErr THEN c
                             ELSE IF lg.leftExpr = NoExpr
                             THEN parseLogicalExpr([lg EXCEPT !.leftExpr = c.expr], c.p, open)
                             ELSE parseLogicalExpr(withRightExpr(lg, c.expr), c.p, open))
              [] t.Type \in {"andToken", "orToken"} ->
                    IF lg.logicalOp # <<>>
                    THEN Stop(ParseErr("ErrUnexpectedLogicalOp"), p1)
                    ELSE With(newLogicalOp(t.Value), LAMBDA o :
                             IF o.err # NoErr THEN Stop(o.err, p1)
                             ELSE parseLogicalExpr([lg EXCEPT !.logicalOp = o.op], p1, open))
              [] OTHER -> Stop(ParseErr("ErrUnexpectedToken"), p1))

\* newParser(s).parse()
parse(s) ==
    With(newParser(s), LAMBDA p :
    With(parseLogicalExpr(NoLogicalExpr, p, 0), LAMBDA r :
        IF r.err # NoErr THEN NotParsed(r.err) ELSE root(r.expr)))

(***************************************************************************)
(* The parser's specification: parse on some query, or root on a           *)
(* logicalExpr built by hand.                                              *)
(***************************************************************************)
\* the operands and operators of a query a op1 b op2 c
Bare == <<"a", "=", "1">>
Grouped == <<"(", "b", "=", "2", ")">>
Operands == {Bare, Grouped}
AndText == <<" ", "a", "n", "d", " ">>
OrText == <<" ", "o", "r", " ">>
OpTexts == {AndText, OrText}
Space == <<" ">>

QueryPieces == {Bare, Grouped, AndText, OrText, <<"(">>, <<")">>, Space, <<"c", "=">>}

RECURSIVE Chains(_)
\* n operands with a logical operator between each two
Chains(n) ==
    IF n = 1 THEN Operands
    ELSE {c \o o \o b : c \in Chains(n - 1), o \in OpTexts, b \in Operands}

\* any pieces in any order, and the chains of operands
Queries ==
    {Concat(ps) : ps \in SeqsUpTo(QueryPieces, MaxQueryPieces)}
        \cup UNION {Chains(n) : n \in 1..MaxOperands}

\* the expressions a logicalExpr built by hand has on its sides
Sides ==
    {NoExpr,
     comparisonExpr(<<"a">>, equalOp, Ptr(<<"1">>)),
     comparisonExpr(<<>>, <<>>, NilPtr),
     logicalExpr(comparisonExpr(<<"a">>, equalOp, Ptr(<<"1">>)), andOp,
                 comparisonExpr(<<"b">>, equalOp, Ptr(<<"2">>))),
     logicalExpr(comparisonExpr(<<"a">>, equalOp, Ptr(<<"1">>)), <<>>, NoExpr),
     logicalExpr(comparisonExpr(<<"a">>, equalOp, Ptr(<<"1">>)), andOp, NoExpr)}

RootInputs ==
    {NoExpr} \cup {logicalExpr(a, op, b) : a \in Sides, op \in {<<>>, andOp, orOp}, b \in Sides}

InitParse ==
    /\ l \in {newLexer(q) : q \in Queries}
    /\ out = <<>>
    /\ e = NoExpr
    /\ opts = <<>>
    /\ res = NotRun

\* p := newParser(query); e, err := p.parse()
CallParse ==
    /\ res = NotRun
    /\ LET r == parse(l.source)
       IN  /\ e' = r.expr
           /\ res' = [kind |-> "parse", err |-> r.err]
    /\ UNCHANGED <<l, out, opts>>

\* e, err := root(lExpr, raw), with no query at hand
CallRoot ==
    /\ res = NotRun
    /\ l.source = <<>>
    /\ \E lExpr \in RootInputs :
          LET r == root(lExpr)
          IN  /\ e' = r.expr
              /\ res' = [kind |-> "root", err |-> r.err, lExpr |-> lExpr]
    /\ UNCHANGED <<l, out, opts>>

NextParse == CallParse \/ CallRoot

SpecParse == InitParse /\ [][NextParse]_vars

(***************************************************************************)
(* The options' specification: getOpts on some list of Options.            *)
(***************************************************************************)
Options ==
    {OptColumnMap(NickMap),
     OptColumnMap(NilMap),
     OptConverter(name, "tagged"),
     OptConverter(age, "other"),
     OptConverter(name, "nil"),
     OptConverter(<<>>, "tagged"),
     OptConverter(<<>>, "nil"),
     OptIgnoredFields(<<<<"A", "g", "e">>>>),
     OptPgPlaceholders}

InitOptions ==
    /\ l = newLexer(<<>>)
    /\ out = <<>>
    /\ e = NoExpr
    /\ opts = <<>>
    /\ res = NotRun

\* opts, err := getOpts(opt...)
CallGetOpts ==
    /\ res = NotRun
    /\ \E opt \in SeqsUpTo(Options, MaxOptions) :
          LET r == getOpts(opt)
          IN  /\ opts' = opt
              /\ res' = [kind |-> "getOpts", opts |-> r.opts, err |-> r.err]
    /\ UNCHANGED <<l, out, e>>

NextOptions == CallGetOpts

SpecOptions == InitOptions /\ [][NextOptions]_vars

(***************************************************************************)
(* The specification of two lexers: newLexer is called twice, and the      *)
(* nextToken calls on the two lexers are made in any order.  Here l is the *)
(* pair of lexers and out the pair of what each has returned.  All that a  *)
(* lexer reads or writes is behind the fields of its own struct: its       *)
(* reader, its stack, its channel and its state (lex.go has no variable at *)
(* package level).  A panic ends the program, a blocked call ends its own  *)
(* caller.                                                                 *)
(***************************************************************************)
PairPieces == {<<"x">>, <<" ">>, <<">">>, <<"!">>, <<DQuote>>}

PairInputs == {Concat(ps) : ps \in SeqsUpTo(PairPieces, MaxPairPieces)}

\* two lexers whose state field is one variable
Touch_SharedState(ls, i, lx) ==
    [j \in 1..2 |-> IF j = i THEN lx ELSE [ls[j] EXCEPT !.state = lx.state]]

\* the lexers after a nextToken call on lexer i that left it as lx
Touch(ls, i, lx) == [ls EXCEPT ![i] = lx]

InitPair ==
    /\ l \in {<<newLexer(a), newLexer(b)>> : a \in PairInputs, b \in PairInputs}
    /\ out = <<<<>>, <<>>>>
    /\ e = NoExpr
    /\ opts = NoOpts
    /\ res = NotRun

Panicked == \E i \in 1..2 : out[i] # <<>> /\ out[i][Len(out[i])].kind = "panic"

NextTokenOn(i) ==
    /\ Len(out[i]) < MaxPairCalls
    /\ ~Panicked
    /\ out[i] # <<>> => out[i][Len(out[i])].kind # "blocked"
    /\ LET r == nextToken(l[i])
       IN  /\ l' = Touch(l, i, r.l)
           /\ out' = [out EXCEPT ![i] = Append(@, [kind |-> r.kind, tk |-> r.tk,
                                                    err |-> r.err])]
    /\ UNCHANGED <<e, opts, res>>

NextPair == \E i \in 1..2 : NextTokenOn(i)

SpecPair == InitPair /\ [][NextPair]_vars

(***************************************************************************)
(* The cursor (lexer/lexer.go).  The buffer is a sequence of bytes, off    *)
(* and pos count bytes, and lastRead is the readOp as its number:          *)
(* opRead = -1, opInvalid = 0, opReadRuneN = N.                            *)
(***************************************************************************)
RuneSelf == 128
RuneError == 65533
RuneEOF == 0
opInvalid == 0
opReadRune1 == 1

\* New
New(text) == [buf |-> text, off |-> 0, lastRead |-> opInvalid, pos |-> 0, eof |-> FALSE]

\* a continuation byte
IsCont(b) == b >= 128 /\ b <= 191

\* utf8.DecodeRuneInString on a string whose first byte is not ASCII: the
\* rune and its width, or RuneError and 1 for an encoding that is not valid
DecodeRuneInString(b) ==
    LET n == Len(b)
        invalid == [r |-> RuneError, n |-> 1]
    IN  IF n = 0 THEN [r |-> RuneError, n |-> 0]
        ELSE IF b[1] < RuneSelf THEN [r |-> b[1], n |-> 1]
        ELSE IF b[1] >= 194 /\ b[1] <= 223
        THEN IF n >= 2 /\ IsCont(b[2])
             THEN [r |-> (b[1] - 192) * 64 + (b[2] - 128), n |-> 2]
             ELSE invalid
        ELSE IF b[1] >= 224 /\ b[1] <= 239
        THEN IF /\ n >= 3
                /\ b[2] >= (IF b[1] = 224 THEN 160 ELSE 128)
                /\ b[2] <= (IF b[1] = 237 THEN 159 ELSE 191)
                /\ IsCont(b[3])
             THEN [r |-> (b[1] - 224) * 4096 + (b[2] - 128) * 64 + (b[3] - 128), n |-> 3]
             ELSE invalid
        ELSE IF b[1] >= 240 /\ b[1] <= 244
        THEN IF /\ n >= 4
                /\ b[2] >= (IF b[1] = 240 THEN 144 ELSE 128)
                /\ b[2] <= (IF b[1] = 244 THEN 143 ELSE 191)
                /\ IsCont(b[3])
                /\ IsCont(b[4])
             THEN [r |-> (b[1] - 240) * 262144 + (b[2] - 128) * 4096
                            + (b[3] - 128) * 64 + (b[4] - 128),
                   n |-> 4]
             ELSE invalid
        ELSE invalid

\* empty
empty(c) == Len(c.buf) <= c.off

\* Shift: the cursor it leaves and the rune it returns
Shift(c) ==
    IF empty(c)
    THEN [l |-> [c EXCEPT !.eof = TRUE, !.lastRead = opReadRune1], r |-> RuneEOF]
    ELSE IF c.buf[c.off + 1] < RuneSelf
    THEN [l |-> [c EXCEPT !.off = c.off + 1, !.lastRead = opReadRune1],
          r |-> c.buf[c.off + 1]]
    ELSE LET d == DecodeRuneInString(SubSeq(c.buf, c.off + 1, Len(c.buf)))
         IN  [l |-> [c EXCEPT !.off = c.off + d.n, !.lastRead = d.n], r |-> d.r]

UnreadRuneErr ==
    [kind |-> "error",
     msg |-> <<"UnreadRune: previous operation was not a successful ReadRune">>]

\* a Backup that steps back one byte whatever was read
Backup_OneByte(c) ==
    IF c.lastRead <= opInvalid THEN [l |-> c, err |-> UnreadRuneErr]
    ELSE IF c.eof THEN [l |-> [c EXCEPT !.eof = FALSE], err |-> NoErr]
    ELSE [l |-> [c EXCEPT !.off = IF c.off >= 1 THEN c.off - 1 ELSE c.off,
                          !.lastRead = opInvalid],
          err |-> NoErr]

\* Backup: the cursor it leaves and the error it returns
Backup(c) ==
    IF c.lastRead <= opInvalid THEN [l |-> c, err |-> UnreadRuneErr]
    ELSE IF c.eof THEN [l |-> [c EXCEPT !.eof = FALSE], err |-> NoErr]
    ELSE [l |-> [c EXCEPT !.off = IF c.off >= c.lastRead THEN c.off - c.lastRead
                                  ELSE c.off,
                          !.lastRead = opInvalid],
          err |-> NoErr]

\* Reduce: the cursor it leaves and the string it returns, or the panic of
\* the slice expression buf[pos:off] when pos is past off
Reduce(c) ==
    IF c.pos > c.off \/ c.off > Len(c.buf)
    THEN [l |-> c, v |-> <<>>, kind |-> "panic"]
    ELSE [l |-> [c EXCEPT !.pos = c.off], v |-> SubSeq(c.buf, c.pos + 1, c.off),
          kind |-> "returns"]

\* Peek: Shift, then Backup with its error dropped
Peek(c) == LET s == Shift(c) IN [l |-> Backup(s.l).l, r |-> s.r]

\* unicode.IsLetter on the runes below 256; the runes above that the buffers
\* hold (the euro sign, the emoticon, utf8.RuneError) are not letters
IsLetter(r) ==
    \/ r >= 65 /\ r <= 90
    \/ r >= 97 /\ r <= 122
    \/ r \in {170, 181, 186}
    \/ r >= 192 /\ r <= 214
    \/ r >= 216 /\ r <= 246
    \/ r >= 248 /\ r <= 255

\* the check functions (checks.go) the cursor is called with, and what each
\* says of a rune
CheckFns == {"IsLetter", "Not(IsDoubleQuote)"}

Valid(fn, r) ==
    CASE fn = "IsLetter" -> IsLetter(r)
      [] fn = "Not(IsDoubleQuote)" -> ~(r = 34)

\* Expect
Expect(c, fn) ==
    LET s == Shift(c)
    IN  IF ~Valid(fn, s.r) THEN [l |-> Backup(s.l).l, ok |-> FALSE]
        ELSE [l |-> s.l, ok |-> TRUE]

RECURSIVE SomeLoop(_, _)
\* the loop of Some, for valid(l.Shift()) {}, and the Backup after it: it
\* "returns", or it "loops" for ever once a Shift that passes the check
\* leaves the cursor as it found it
SomeLoop(c, fn) ==
    LET s == Shift(c)
    IN  IF ~Valid(fn, s.r) THEN [l |-> Backup(s.l).l, ok |-> TRUE, kind |-> "returns"]
        ELSE IF s.l = c THEN [l |-> c, ok |-> FALSE, kind |-> "loops"]
        ELSE SomeLoop(s.l, fn)

\* Some
Some(c, fn) ==
    LET s == Shift(c)
    IN  IF ~Valid(fn, s.r) THEN [l |-> Backup(s.l).l, ok |-> FALSE, kind |-> "returns"]
        ELSE SomeLoop(s.l, fn)

(***************************************************************************)
(* The cursor's specification: a cursor on some buffer, and the calls made *)
(* on it.  Here l is the cursor and out the calls made so far, each with   *)
(* the cursor it was made on.  A call that panics or never returns is the  *)
(* last.                                                                   *)
(***************************************************************************)
\* a, NUL, a double quote, e-acute, the euro sign, an emoticon, a
\* continuation byte alone and a leading byte alone
CursorPieces ==
    {<<97>>, <<0>>, <<34>>, <<195, 169>>, <<226, 130, 172>>, <<240, 159, 152, 128>>,
     <<169>>, <<195>>}

Buffers == {Concat(ps) : ps \in SeqsUpTo(CursorPieces, MaxCursorPieces)}

InitCursor ==
    /\ l \in {New(b) : b \in Buffers}
    /\ out = <<>>
    /\ e = NoExpr
    /\ opts = NoOpts
    /\ res = NotRun

\* the record of one call: made on c with the check function fn, it left c2
\* and returned the rune r, the error err, the bool ok or the string v
Call(op, fn, c, c2, r, err, ok, v, kind) ==
    [op |-> op, fn |-> fn, c |-> c, r |-> r, err |-> err, ok |-> ok, v |-> v,
     kind |-> kind, from |-> c.off, to |-> c2.off, atEnd |-> empty(c)]

CursorStopped == out # <<>> /\ out[Len(out)].kind \in {"panic", "loops"}

CanCall == Len(out) < MaxCursorOps /\ ~CursorStopped

CallShift ==
    /\ CanCall
    /\ LET r == Shift(l)
       IN  /\ l' = r.l
           /\ out' = Append(out, Call("Shift", "", l, r.l, r.r, NoErr, TRUE, <<>>,
                                       "returns"))
    /\ UNCHANGED <<e, opts, res>>

CallBackup ==
    /\ CanCall
    /\ LET r == Backup(l)
       IN  /\ l' = r.l
           /\ out' = Append(out, Call("Backup", "", l, r.l, RuneEOF, r.err, TRUE, <<>>,
                                       "returns"))
    /\ UNCHANGED <<e, opts, res>>

CallPeek ==
    /\ CanCall
    /\ LET r == Peek(l)
       IN  /\ l' = r.l
           /\ out' = Append(out, Call("Peek", "", l, r.l, r.r, NoErr, TRUE, <<>>,
                                       "returns"))
    /\ UNCHANGED <<e, opts, res>>

CallReduce ==
    /\ CanCall
    /\ LET r == Reduce(l)
       IN  /\ l' = r.l
           /\ out' = Append(out, Call("Reduce", "", l, r.l, RuneEOF, NoErr, TRUE, r.v,
                                       r.kind))
    /\ UNCHANGED <<e, opts, res>>

CallExpect ==
    /\ CanCall
    /\ \E fn \in CheckFns :
          LET r == Expect(l, fn)
          IN  /\ l' = r.l
              /\ out' = Append(out, Call("Expect", fn, l, r.l, RuneEOF, NoErr, r.ok, <<>>,
                                          "returns"))
    /\ UNCHANGED <<e, opts, res>>

CallSome ==
    /\ CanCall
    /\ \E fn \in CheckFns :
          LET r == Some(l, fn)
          IN  /\ l' = r.l
              /\ out' = Append(out, Call("Some", fn, l, r.l, RuneEOF, NoErr, r.ok, <<>>,
                                          r.kind))
    /\ UNCHANGED <<e, opts, res>>

NextCursor ==
    CallShift \/ CallBackup \/ CallPeek \/ CallReduce \/ CallExpect \/ CallSome

SpecCursor == InitCursor /\ [][NextCursor]_vars

(***************************************************************************)
(* The operators' specification: one call of newComparisonOp or of         *)
(* newLogicalOp on some string.                                            *)
(***************************************************************************)
OpRunes == {"=", "!", ">", "<", "%", "a", "n", "d", "o", "r", "A", "N", "D"}

OpStrings == SeqsUpTo(OpRunes, MaxOpLen)

InitExpr ==
    /\ l = newLexer(<<>>)
    /\ out = <<>>
    /\ e = NoExpr
    /\ opts = NoOpts
    /\ res = NotRun

CallNewComparisonOp ==
    /\ res = NotRun
    /\ \E s \in OpStrings :
          LET r == newComparisonOp(s)
          IN  res' = [kind |-> "newComparisonOp", s |-> s, op |-> r.op, err |-> r.err]
    /\ UNCHANGED <<l, out, e, opts>>

CallNewLogicalOp ==
    /\ res = NotRun
    /\ \E s \in OpStrings :
          LET r == newLogicalOp(s)
          IN  res' = [kind |-> "newLogicalOp", s |-> s, op |-> r.op, err |-> r.err]
    /\ UNCHANGED <<l, out, e, opts>>

NextExpr == CallNewComparisonOp \/ CallNewLogicalOp

SpecExpr == InitExpr /\ [][NextExpr]_vars

(***************************************************************************)
(* Properties of the lexer.                                                *)
(***************************************************************************)
Calls == 1..Len(out)

\* the input as it stood when call i began
Rest(i) == SubSeq(l.source, out[i].from + 1, Len(l.source))

\* the runes call i consumed
Lexeme(i) == SubSeq(l.source, out[i].from + 1, out[i].to)

IsEofResult(r) ==
    r.kind = "token" /\ r.tk = Token("eofToken", <<>>) /\ r.err = NoErr

AndSpellings == {<<"a", "n", "d">>, <<"A", "n", "d">>, <<"A", "N", "D">>}
OrSpellings == {<<"o", "r">>, <<"O", "R">>}

\* C5: once a nextToken call has returned an eofToken, every later call on
\* the same lexer returns an eofToken with an empty value and a nil error.
C5_IdempotentEof ==
    \A i \in Calls : \A j \in Calls :
        (i < j /\ out[i].kind = "token" /\ out[i].tk.Type = "eofToken")
            => IsEofResult(out[j])

\* C5 witness: a token, then the eofToken, then two more calls.
C5_Witness ==
    \E i \in Calls :
        /\ i > 1 /\ i + 2 <= Len(out)
        /\ out[i - 1].tk.Type = "stringToken"
        /\ out[i].tk.Type = "eofToken"

\* C6: once a nextToken call has returned an error, every later call on the
\* same lexer returns an error again: it does not panic and does not go back
\* to returning tokens.
C6_ErrorsAreTerminal ==
    \A i \in Calls : \A j \in Calls :
        (i < j /\ out[i].kind = "error") => out[j].kind = "error"

\* C7: an unquoted and/or in any letter case is an andToken/orToken with the
\* value "and"/"or"; a quoted and/or is a stringToken carrying the text
\* between the quotes as written.
C7_Keywords ==
    \A i \in Calls :
        /\ Lexeme(i) \in AndSpellings
              => out[i].kind = "token" /\ out[i].tk = Token("andToken", <<"a", "n", "d">>)
        /\ Lexeme(i) \in OrSpellings
              => out[i].kind = "token" /\ out[i].tk = Token("orToken", <<"o", "r">>)
        /\ \A w \in AndSpellings \cup OrSpellings :
              Lexeme(i) = <<DQuote>> \o w \o <<DQuote>>
                  => out[i].kind = "token" /\ out[i].tk = Token("stringToken", w)
        /\ (Lexeme(i) # <<>> /\ Lexeme(i)[1] = DQuote)
              => out[i].kind = "token" /\ out[i].tk.Type = "stringToken"

\* C7 witness: an upper-case AND was lexed as an operator, and after it a
\* quoted "or" was lexed as a string.
C7_Witness ==
    \E i \in Calls : \E j \in Calls :
        /\ i < j
        /\ Lexeme(i) = <<"A", "N", "D">> /\ out[i].tk.Type = "andToken"
        /\ Lexeme(j) = <<DQuote, "o", "r", DQuote>> /\ out[j].tk.Type = "stringToken"

\* the call began in lexStartState at a "!"
AtBang(i) == out[i].st = "lexStartState" /\ Rest(i) # <<>> /\ Rest(i)[1] = "!"

\* the rune after the "!" call i began at: what read() returned for it
AfterBang(i) == IF Len(Rest(i)) >= 2 THEN Rest(i)[2] ELSE eof

Shown(r) == IF r \in {DQuote, Backslash} THEN <<"!", Backslash, r>> ELSE <<"!", r>>

Unterminated(i) ==
    /\ out[i].st = "lexStartState"
    /\ Rest(i) # <<>> /\ Rest(i)[1] = DQuote
    /\ \A k \in 2..Len(Rest(i)) : Rest(i)[k] # DQuote

\* C9: a quoted string with no closing delimiter before the end of the input
\* is an error, and its text is never emitted as a stringToken.
C9_MissingDelimiter ==
    \A i \in Calls : Unterminated(i) => out[i].kind = "error"

PlainRunes == {"a", "n", "d", "A", "N", "D", "o", "r", "O", "R", "x", " ",
               "!", "=", ">", "<", "%", "(", ")"}

\* C10: inside a quoted string, backslash-delimiter gives the delimiter and
\* does not end the string, a double backslash gives one backslash, a
\* backslash before another rune is kept as it is, and a backslash that is
\* the last rune of the input is an error.
C10_Escapes ==
    \A i \in Calls : out[i].st = "lexStartState" =>
        /\ Rest(i) = <<DQuote, Backslash, DQuote, DQuote>>
              => out[i].kind = "token" /\ out[i].tk = Token("stringToken", <<DQuote>>)
        /\ Rest(i) = <<DQuote, Backslash, Backslash, DQuote>>
              => out[i].kind = "token" /\ out[i].tk = Token("stringToken", <<Backslash>>)
        /\ \A c \in PlainRunes :
              Rest(i) = <<DQuote, Backslash, c, DQuote>>
                  => out[i].kind = "token"
                     /\ out[i].tk = Token("stringToken", <<Backslash, c>>)
        /\ Rest(i) \in {<<DQuote, Backslash>>, <<DQuote, "x", Backslash>>}
              => out[i].kind = "error"

(***************************************************************************)
(* Properties of the compiler.                                             *)
(***************************************************************************)
Returned == res.kind \in {"Parse", "exprToWhereClause"}
Succeeded == Returned /\ res.err = NoErr

\* the options in force during the call
InForce == getOpts(opts).opts

\* the call ran with the default converters only
DefaultConverters == InForce.withValidateConvertFn = "nil"

\* the caller asked Parse for numbered placeholders
PgAsked == res.kind = "Parse" /\ InSeq(OptPgPlaceholders, opts)

RECURSIVE Blank(_)
\* the tree x with every comparison value replaced by the same text
Blank(x) ==
    IF x.type = "comparisonExpr" THEN [x EXCEPT !.value = Ptr(seven)]
    ELSE [x EXCEPT !.leftExpr = Blank(x.leftExpr), !.rightExpr = Blank(x.rightExpr)]

RECURSIVE LeavesOf(_)
\* the comparisons of x from left to right
LeavesOf(x) ==
    IF x.type = "comparisonExpr" THEN <<x>>
    ELSE LeavesOf(x.leftExpr) \o LeavesOf(x.rightExpr)

\* the condition without its placeholders
StripPlaceholders(cond) == SelectSeq(cond, LAMBDA r : r \notin {"?", "$"} /\ ~IsDigit(r))

\* C1 as the claim words it: after a Parse that succeeded with the default
\* converters, the condition without its placeholders holds the text of no
\* string argument.
C1_AsClaimed ==
    (res.kind = "Parse" /\ Succeeded /\ DefaultConverters) =>
        \A n \in 1..Len(res.wc.Args) :
            (res.wc.Args[n].typ = "string" /\ res.wc.Args[n].str # <<>>) =>
                ~Contains(StripPlaceholders(res.wc.Condition), res.wc.Args[n].str)

\* C1: after a Parse that succeeded with the default converters, the condition
\* does not depend on the comparison values: it is the condition Parse gives
\* for the same tree with every value replaced by one fixed text, so that it
\* is made of column names, operator text, parentheses and placeholders only.
C1_ValuesStayOut ==
    (res.kind = "Parse" /\ Succeeded /\ DefaultConverters) =>
        /\ Parse(Blank(e), opts).err = NoErr
        /\ res.wc.Condition = Parse(Blank(e), opts).wc.Condition

\* C1 witness: a Parse that succeeded with the default converters on a tree of
\* several comparisons, one of whose values is the text of a column name and
\* another a different text.
C1_Witness ==
    /\ res.kind = "Parse" /\ Succeeded /\ DefaultConverters
    /\ e.type = "logicalExpr"
    /\ \E m, n \in 1..Len(res.wc.Args) :
          /\ res.wc.Args[m] = StrArg(name)
          /\ res.wc.Args[n].typ = "string" /\ res.wc.Args[n].str \notin {name, seven}

PlaceholderPositions(cond) == {i \in 1..Len(cond) : cond[i] \in {"?", "$"}}

\* the n-th smallest member of a set of positions
Nth(P, n) == CHOOSE i \in P : Cardinality({j \in P : j < i}) = n - 1

\* C3: after a successful compilation the condition has as many placeholders
\* as there are args, the n-th placeholder from the left stands directly after
\* the column and operator text of the n-th comparison of the tree and the
\* n-th arg is the value bound for that comparison; the placeholder is "?", or
\* "$n" when Parse was asked for numbered placeholders.
C3_PlaceholdersMatchArgs ==
    Succeeded =>
        LET cond == res.wc.Condition
            args == res.wc.Args
            P == PlaceholderPositions(cond)
            lv == LeavesOf(e)
        IN  /\ Cardinality(P) = Len(args)
            /\ Len(lv) = Len(args)
            /\ \A n \in 1..Len(args) :
                  LET i == Nth(P, n)
                      alone == exprToWhereClause(lv[n], opts).wc
                      text == SubSeq(alone.Condition, 1, Len(alone.Condition) - 1)
                  IN  /\ args[n] = alone.Args[1]
                      /\ i > Len(text)
                      /\ SubSeq(cond, i - Len(text), i - 1) = text
                      /\ IF PgAsked
                         THEN i < Len(cond) /\ SubSeq(cond, i, i + 1) = PgPlaceholder(n)
                         ELSE cond[i] = "?"

\* C3 witness: Parse, asked for numbered placeholders, succeeded on a tree of
\* three comparisons whose left side is itself a logicalExpr.
C3_Witness ==
    /\ PgAsked /\ Succeeded
    /\ Len(res.wc.Args) = 3
    /\ e.leftExpr.type = "logicalExpr"

\* C4: the condition compiled for a logicalExpr is "(", the condition of its
\* left side, " ", the operator in lower case, " ", the condition of its right
\* side and ")", and its args are the args of the left side followed by those
\* of the right side; Parse numbers the placeholders of that text when asked.
\* Every subtree of a tree Parse is run on is also a tree Parse is run on, so
\* this holds at every logical node.
C4_LogicalExpr ==
    (Succeeded /\ e.type = "logicalExpr") =>
        LET left == exprToWhereClause(e.leftExpr, opts).wc
            right == exprToWhereClause(e.rightExpr, opts).wc
            text == <<"(">> \o left.Condition \o <<" ">> \o ToLower(e.logicalOp)
                        \o <<" ">> \o right.Condition \o <<")">>
        IN  /\ ToLower(e.logicalOp) \in {andOp, orOp}
            /\ res.wc.Condition =
                  (IF PgAsked THEN Renumber(text, 1, Len(res.wc.Args)) ELSE text)
            /\ res.wc.Args = left.Args \o right.Args

\* C4 witness: a successful compilation of a logicalExpr whose two sides are a
\* logicalExpr and a comparison.
C4_Witness ==
    /\ Succeeded /\ e.type = "logicalExpr"
    /\ e.rightExpr.type = "logicalExpr"
    /\ e.leftExpr.type = "comparisonExpr"
    /\ e.logicalOp = orOp /\ e.rightExpr.logicalOp = andOp

(***************************************************************************)
(* Properties of the parser.                                               *)
(***************************************************************************)
ParseRan == res.kind = "parse"
ParseFailed(r, kind) == r.err # NoErr /\ r.err.kind = kind /\ r.expr = NoExpr

Count(s, ch) == Cardinality({i \in DOMAIN s : s[i] = ch})
Depth(s, i) == Count(SubSeq(s, 1, i), "(") - Count(SubSeq(s, 1, i), ")")
\* no closing paren without an opening one before it, and none left open
Balanced(s) == Depth(s, Len(s)) = 0 /\ \A i \in 1..Len(s) : Depth(s, i) >= 0

RECURSIVE Complete(_)
\* nothing is missing from the tree, at any depth
Complete(x) ==
    IF x = NoExpr THEN FALSE
    ELSE IF x.type = "comparisonExpr" THEN isComplete(x)
    ELSE x.logicalOp \in {andOp, orOp} /\ Complete(x.leftExpr) /\ Complete(x.rightExpr)

\* parse gave a tree with nothing missing
ParsedWhole == ParseRan /\ res.err = NoErr /\ Complete(e)

OpOf(t) == IF t = AndText THEN andOp ELSE orOp
ExprOf(t) == parse(t).expr
LeftLeaning(a, o1, b, o2, c) ==
    logicalExpr(logicalExpr(ExprOf(a), OpOf(o1), ExprOf(b)), OpOf(o2), ExprOf(c))
RightLeaning(a, o1, b, o2, c) ==
    logicalExpr(ExprOf(a), OpOf(o1), logicalExpr(ExprOf(b), OpOf(o2), ExprOf(c)))

\* C12, as claimed: for operands a, b, c that are comparisons or
\* parenthesized expressions, a op1 b op2 c builds ((a op1 b) op2 c).
C12_AsClaimed ==
    \A a \in Operands, b \in Operands, c \in Operands, o1 \in OpTexts, o2 \in OpTexts :
        (ParseRan /\ l.source = a \o o1 \o b \o o2 \o c)
            => (res.err = NoErr /\ e = LeftLeaning(a, o1, b, o2, c))

\* C12: a op1 b op2 c builds ((a op1 b) op2 c) when b is a bare comparison,
\* whether a and c are bare or parenthesized; when b is parenthesized, the
\* operand that opens with the paren takes all that follows as its own, and
\* the tree is (a op1 (b op2 c)), the tree that parentheses around b op2 c
\* give for bare operands.
C12_Associativity ==
    \A a \in Operands, b \in Operands, c \in Operands, o1 \in OpTexts, o2 \in OpTexts :
        (ParseRan /\ l.source = a \o o1 \o b \o o2 \o c)
            => /\ res.err = NoErr
               /\ b = Bare => e = LeftLeaning(a, o1, b, o2, c)
               /\ b = Grouped => e = RightLeaning(a, o1, b, o2, c)
               /\ (a = Bare /\ b = Bare /\ c = Bare)
                     => parse(a \o o1 \o <<"(">> \o b \o o2 \o c \o <<")">>)
                          = Parsed(RightLeaning(a, o1, b, o2, c))

\* C12: three parenthesized operands were parsed into a tree that leans right
C12_Witness ==
    /\ ParseRan
    /\ l.source = Grouped \o AndText \o Grouped \o OrText \o Grouped
    /\ e = RightLeaning(Grouped, AndText, Grouped, OrText, Grouped)

\* the tokens of s that are not whitespace
Significant(s) == SelectSeq(Lex(newLexer(s)), LAMBDA t : t.Type # "whitespaceToken")
\* s is one comparison, column operator value, and nothing else
IsComparisonText(s) ==
    LET ts == Significant(s)
    IN  /\ Len(ts) = 4
        /\ ts[1].Type = "stringToken"
        /\ ts[2].Type \in ComparisonTokens
        /\ ts[3].Type = "stringToken"
        /\ ts[4].Type = "eofToken"
RECURSIVE InParens(_, _)
\* s inside n pairs of parens
InParens(s, n) == IF n = 0 THEN s ELSE <<"(">> \o InParens(s, n - 1) \o <<")">>

\* C13: balanced parentheses around a complete comparison do not change the
\* result: the comparison inside up to MaxParens pairs of parens parses to
\* the comparisonExpr the comparison alone parses to.
C13_RedundantParens ==
    (ParseRan /\ IsComparisonText(l.source))
        => /\ res.err = NoErr
           /\ e.type = "comparisonExpr"
           /\ isComplete(e)
           /\ \A n \in 1..MaxParens : parse(InParens(l.source, n)) = Parsed(e)

\* C13: a comparison with whitespace around it was parsed, and is what it
\* parses to in two pairs of parens
C13_Witness ==
    /\ ParseRan
    /\ IsComparisonText(l.source)
    /\ Len(l.source) > 3
    /\ e.type = "comparisonExpr"
    /\ parse(InParens(l.source, 2)).expr = e

\* the last token of s before eofToken is a logical operator
EndsWithLogicalOp(s) ==
    LET ts == Significant(s)
    IN  /\ Len(ts) >= 2
        /\ ts[Len(ts)].Type = "eofToken"
        /\ ts[Len(ts) - 1].Type \in {"andToken", "orToken"}

\* C14: a logical operator at the end of input is rejected.  A query that
\* ends with and/or never gives a tree, and a query that parses to a whole
\* tree fails with ErrMissingRightSideExpr once and/or is put after it: the
\* left-hand expression alone is not returned.
C14_TrailingLogicalOp ==
    /\ (ParseRan /\ EndsWithLogicalOp(l.source)) => (res.err # NoErr /\ e = NoExpr)
    /\ ParsedWhole =>
          \A o \in OpTexts : ParseFailed(parse(l.source \o o), "ErrMissingRightSideExpr")

\* C14: a query with a left side and a logical operator at its end was
\* refused for its missing right side
C14_Witness ==
    /\ ParseRan
    /\ EndsWithLogicalOp(l.source)
    /\ Len(Significant(l.source)) >= 5
    /\ res.err # NoErr
    /\ res.err.kind = "ErrMissingRightSideExpr"

\* what parse returned
Outcome == [expr |-> e, err |-> res.err]

\* C15, as claimed: two complete expressions in a row with no logical
\* operator between them fail with ErrUnexpectedExpr, whether the second
\* one starts with a bare column or with an opening parenthesis.
C15_AsClaimed ==
    \A a \in Operands, b \in Operands :
        (ParseRan /\ l.source = a \o Space \o b) => ParseFailed(Outcome, "ErrUnexpectedExpr")

\* C15: two complete expressions in a row with no logical operator between
\* them are refused and no tree is returned; the error is ErrUnexpectedExpr
\* when the second one starts with a bare column, ErrMissingLogicalOp when
\* it starts with an opening parenthesis after whitespace, and
\* ErrUnexpectedOpeningParen when the parenthesis follows the value of a bare
\* comparison at once.
C15_NoLogicalOpBetween ==
    /\ \A a \in Operands, b \in Operands :
          /\ (ParseRan /\ l.source = a \o Space \o b)
                => ParseFailed(Outcome, IF b = Bare THEN "ErrUnexpectedExpr"
                                        ELSE "ErrMissingLogicalOp")
          /\ (ParseRan /\ l.source = a \o b /\ b = Grouped)
                => (res.err # NoErr /\ e = NoExpr)
    /\ (ParseRan /\ l.source = Bare \o Grouped)
          => ParseFailed(Outcome, "ErrUnexpectedOpeningParen")

\* C15: a comparison, whitespace and a parenthesized comparison were refused
\* for the missing logical operator
C15_Witness ==
    /\ ParseRan
    /\ l.source = Bare \o Space \o Grouped
    /\ ParseFailed(Outcome, "ErrMissingLogicalOp")

ComparisonOps ==
    {greaterThanOp, greaterThanOrEqualOp, lessThanOp, lessThanOrEqualOp, equalOp,
     notEqualOp, containsOp}

RECURSIVE Shaped(_)
\* nothing but the value of a comparison is missing from the tree
Shaped(x) ==
    IF x = NoExpr THEN FALSE
    ELSE IF x.type = "comparisonExpr"
    THEN x.column # <<>> /\ x.comparisonOp \in ComparisonOps
    ELSE x.logicalOp \in {andOp, orOp} /\ Shaped(x.leftExpr) /\ Shaped(x.rightExpr)

RECURSIVE ValuesMissing(_)
\* the comparisons of the tree that have no value
ValuesMissing(x) ==
    IF x.type = "comparisonExpr" THEN (IF x.value = NilPtr THEN 1 ELSE 0)
    ELSE ValuesMissing(x.leftExpr) + ValuesMissing(x.rightExpr)

RECURSIVE LastComparison(_)
LastComparison(x) == IF x.type = "comparisonExpr" THEN x ELSE LastComparison(x.rightExpr)

\* the last token of s before eofToken is a comparison operator
EndsWithComparisonOp(s) ==
    LET ts == Significant(s)
    IN  /\ Len(ts) >= 3
        /\ ts[Len(ts)].Type = "eofToken"
        /\ ts[Len(ts) - 1].Type \in ComparisonTokens

\* C16, as claimed: every tree parse returns is complete at every depth:
\* each logicalExpr has both sides and an operator, each comparisonExpr a
\* column, an operator and a value.
C16_AsClaimed == (ParseRan /\ res.err = NoErr) => Complete(e)

\* C16: in every tree parse returns each logicalExpr has both sides and an
\* operator and each comparisonExpr a column and an operator; the value is
\* there too, but for the last comparison of a query that ends right after
\* its comparison operator.
C16_CompleteButLastValue ==
    (ParseRan /\ res.err = NoErr)
        => /\ Shaped(e)
           /\ ValuesMissing(e) <= 1
           /\ ~Complete(e)
                 => /\ EndsWithComparisonOp(l.source)
                    /\ LastComparison(e).value = NilPtr
           /\ ~EndsWithComparisonOp(l.source) => Complete(e)

\* C16: a tree of two comparisons was returned for a query that ends after
\* a comparison operator
C16_Witness ==
    /\ ParseRan
    /\ res.err = NoErr
    /\ e.type = "logicalExpr"
    /\ Shaped(e)
    /\ ~Complete(e)

\* C17: root never drops a populated right side without a word: for a
\* logicalExpr with an empty logicalOp and a rightExpr that is not nil, root
\* returns ErrMissingExpr or ErrMissingRightSideExpr and no expression.
C17_RootKeepsRightSide ==
    (res.kind = "root" /\ res.lExpr # NoExpr
        /\ res.lExpr.logicalOp = <<>> /\ res.lExpr.rightExpr # NoExpr)
        => /\ res.err # NoErr
           /\ res.err.kind \in {"ErrMissingExpr", "ErrMissingRightSideExpr"}
           /\ e = NoExpr

\* C17: root was given a comparison on each side and no operator, and
\* returned the left one
C17_RightSideDropped ==
    /\ res.kind = "root"
    /\ res.lExpr # NoExpr
    /\ res.lExpr.logicalOp = <<>>
    /\ res.lExpr.rightExpr # NoExpr
    /\ res.lExpr.rightExpr.type = "comparisonExpr"
    /\ res.err = NoErr
    /\ e = res.lExpr.leftExpr

(***************************************************************************)
(* More properties of the compiler.                                        *)
(***************************************************************************)
\* the options the caller passed, read from the list itself
Passed(option) == {i \in 1..Len(opts) : opts[i].option = option}
IgnoredAsked ==
    {f \in {ModelFields[i].name : i \in 1..Len(ModelFields)} :
        \E i \in Passed("WithIgnoredFields") : InSeq(f, opts[i].fieldName)}
AliasAsked(column) ==
    IF \E i \in Passed("WithColumnMap") : ~opts[i].m.isNil /\ column \in DOMAIN opts[i].m.kv
    THEN LET i == CHOOSE i \in Passed("WithColumnMap") :
                      ~opts[i].m.isNil /\ column \in DOMAIN opts[i].m.kv
         IN  opts[i].m.kv[column]
    ELSE column

\* the column of c, once lower-cased and mapped, is no field of the model, or
\* is an ignored one
UnknownColumn(c) ==
    ~\E i \in 1..Len(ModelFields) :
        /\ ToLower(ModelFields[i].name) = AliasAsked(ToLower(c.column))
        /\ ModelFields[i].name \notin IgnoredAsked

\* Parse ran on a tree, with options that were all accepted
Compiling ==
    /\ res.kind = "Parse"
    /\ e.type \in {"comparisonExpr", "logicalExpr"}
    /\ getOpts(opts).err = NoErr

\* C18: a comparison whose column, after alias mapping and case-insensitive
\* lookup, is unknown or ignored makes the compilation fail wherever it is in
\* the tree: no WhereClause is returned, and the error is ErrInvalidColumn
\* when the comparisons before it compile.
C18_InvalidColumn ==
    Compiling =>
        \A i \in 1..Len(LeavesOf(e)) :
            UnknownColumn(LeavesOf(e)[i])
                => /\ res.err # NoErr
                   /\ res.wc = NilWhereClause
                   /\ (\A j \in 1..(i - 1) : Parse(LeavesOf(e)[j], opts).err = NoErr)
                         => res.err.kind = "ErrInvalidColumn"

\* C18: an ignored column on the right of a tree whose left side compiles
\* was refused
C18_Witness ==
    /\ Compiling
    /\ e.type = "logicalExpr"
    /\ IgnoredAsked # {}
    /\ LET ls == LeavesOf(e)
       IN  /\ ToLower(ls[Len(ls)].column) = age
           /\ \A j \in 1..(Len(ls) - 1) : ~UnknownColumn(ls[j])
    /\ res.err # NoErr
    /\ res.err.kind = "ErrInvalidColumn"

\* the field the column of c stands for, when it is known
FieldOf(c) ==
    CHOOSE i \in 1..Len(ModelFields) :
        ToLower(ModelFields[i].name) = AliasAsked(ToLower(c.column))

\* a converter of the caller's is in force for the column of c
CustomConverted(c) ==
    \E i \in Passed("WithConverter") : opts[i].fieldName = AliasAsked(ToLower(c.column))

\* c is a contains comparison with a value, on a string column that the
\* default converter handles
DefaultContains(c) ==
    /\ c.comparisonOp = <<"%">>
    /\ c.value # NilPtr
    /\ ~UnknownColumn(c)
    /\ ModelFields[FieldOf(c)].typ = "string"
    /\ ~CustomConverted(c)

Like == <<" ", "l", "i", "k", "e", " ">>
Wildcards(v) == StrArg(<<"%">> \o v \o <<"%">>)

DuplicateConverter ==
    \E i \in Passed("WithConverter"), j \in Passed("WithConverter") :
        /\ i < j
        /\ opts[i].fieldName = opts[j].fieldName
        /\ opts[i].fieldName # <<>>
        /\ opts[i].fn # "nil"
        /\ opts[j].fn # "nil"

\* C20: registering a second converter for a field is refused when the
\* options are applied: the call fails with ErrInvalidParameter and gives no
\* WhereClause, and the later converter does not take the place of the
\* earlier one.
C20_DuplicateRejected ==
    (Returned /\ e.type \in {"comparisonExpr", "logicalExpr"} /\ DuplicateConverter)
        => /\ getOpts(opts).err # NoErr
           /\ res.err # NoErr
           /\ res.err.kind = "ErrInvalidParameter"
           /\ res.wc = NilWhereClause

(***************************************************************************)
(* Properties of the options.                                              *)
(***************************************************************************)
GetOptsRan == res.kind = "getOpts"

\* the registrations of a converter that WithConverter accepts
Registered == {i \in Passed("WithConverter") : opts[i].fieldName # <<>> /\ opts[i].fn # "nil"}

\* the caller registered converters for several fields, one for each
SeveralFields ==
    /\ Cardinality(Registered) >= 2
    /\ \A i \in Registered, j \in Registered : i # j => opts[i].fieldName # opts[j].fieldName

\* C21: when converters are registered for several distinct fields, every
\* one stays in effect: a comparison on each of the fields is compiled by
\* the converter registered for that field.
C21_EveryConverterInEffect ==
    (GetOptsRan /\ res.err = NoErr /\ SeveralFields)
        => \A i \in Registered :
               convertComparison(comparisonExpr(opts[i].fieldName, equalOp, Ptr(seven)),
                                 res.opts)
                   = CallConverter(opts[i].fn, opts[i].fieldName, equalOp, Ptr(seven))

\* a WithConverter with a field name and no function, or a function and no
\* field name
Malformed(opt) ==
    /\ opt.option = "WithConverter"
    /\ \/ opt.fieldName # <<>> /\ opt.fn = "nil"
       \/ opt.fieldName = <<>> /\ opt.fn # "nil"

MalformedAt == {i \in 1..Len(opts) : Malformed(opts[i])}
FirstMalformed == CHOOSE i \in MalformedAt : \A j \in MalformedAt : i <= j

\* C22: a WithConverter with a field name and a nil function, or a function
\* and an empty field name, returns ErrInvalidParameter and leaves the
\* options as they were; getOpts stops at the first such Option and reports
\* its error, with the options the Options before it had given.  No other
\* Option fails.
C22_MalformedConverter ==
    GetOptsRan =>
        IF MalformedAt = {} THEN res.err = NoErr
        ELSE LET before == getOpts(SubSeq(opts, 1, FirstMalformed - 1))
                 bad == opts[FirstMalformed]
             IN  /\ before.err = NoErr
                 /\ res.err # NoErr
                 /\ res.err.kind = "ErrInvalidParameter"
                 /\ res.opts = before.opts
                 /\ WithConverter(bad.fieldName, bad.fn, before.opts)
                       = [opts |-> before.opts, err |-> res.err]

\* C22: getOpts stopped at a malformed WithConverter that had an accepted
\* Option before it and another Option after it
C22_Witness ==
    /\ GetOptsRan
    /\ MalformedAt # {}
    /\ FirstMalformed = 2
    /\ Len(opts) = 3
    /\ opts[3] = OptPgPlaceholders
    /\ res.err # NoErr
    /\ res.opts # getDefaultOptions
    /\ ~res.opts.withPgPlaceholder

(***************************************************************************)
(* Properties of exprToWhereClause on trees built by hand.                 *)
(***************************************************************************)
\* exprToWhereClause has run, with options it accepted, on a logicalExpr
\* that holds no operator
MissingOp ==
    /\ res.kind = "exprToWhereClause"
    /\ getOpts(opts).err = NoErr
    /\ e.type = "logicalExpr"
    /\ e.logicalOp = <<>>

\* the child compiles under the options of the call
Compiles(x) == exprToWhereClause(x, opts).err = NoErr

\* C23, as the claim states it: exprToWhereClause on a logicalExpr with an
\* empty logicalOp fails with ErrMissingLogicalOp and returns no WhereClause,
\* whatever its children are.
C23_AsClaimed ==
    MissingOp => res.err.kind = "ErrMissingLogicalOp" /\ res.wc = NilWhereClause

\* C23: exprToWhereClause on a logicalExpr with an empty logicalOp fails and
\* returns no WhereClause.  The error is ErrMissingLogicalOp when the left
\* child compiles, also when the right child compiles too; when the left
\* child does not compile the error is the left child's.
C23_MissingLogicalOp ==
    MissingOp =>
        /\ res.err # NoErr
        /\ res.wc = NilWhereClause
        /\ Compiles(e.leftExpr) => res.err.kind = "ErrMissingLogicalOp"
        /\ ~Compiles(e.leftExpr)
              => res.err.kind = exprToWhereClause(e.leftExpr, opts).err.kind

\* C23: a logicalExpr with no operator whose two children both compile was
\* refused with ErrMissingLogicalOp
C23_Witness ==
    /\ MissingOp
    /\ Compiles(e.leftExpr)
    /\ Compiles(e.rightExpr)
    /\ res.err.kind = "ErrMissingLogicalOp"
    /\ res.wc = NilWhereClause

(***************************************************************************)
(* Properties of the operators.                                            *)
(***************************************************************************)
SevenComparisonOps ==
    {<<"=">>, <<"!", "=">>, <<">", "=">>, <<"<", "=">>, <<">">>, <<"<">>, <<"%">>}

TwoLogicalOps == {<<"a", "n", "d">>, <<"o", "r">>}

\* C24: newComparisonOp succeeds, with the string as the operator, exactly
\* for = != >= <= > < %, and newLogicalOp exactly for the lower-case and,
\* or; every other string gives ErrInvalidComparisonOp or
\* ErrInvalidLogicalOp and the empty operator.
C24_ClosedEnumerations ==
    /\ res.kind = "newComparisonOp" =>
          IF res.s \in SevenComparisonOps
          THEN res.err = NoErr /\ res.op = res.s
          ELSE res.err.kind = "ErrInvalidComparisonOp" /\ res.op = <<>>
    /\ res.kind = "newLogicalOp" =>
          IF res.s \in TwoLogicalOps
          THEN res.err = NoErr /\ res.op = res.s
          ELSE res.err.kind = "ErrInvalidLogicalOp" /\ res.op = <<>>

\* C24: newLogicalOp refused the upper-case AND
C24_Witness ==
    /\ res.kind = "newLogicalOp"
    /\ res.s = <<"A", "N", "D">>
    /\ res.err.kind = "ErrInvalidLogicalOp"
    /\ res.op = <<>>

(***************************************************************************)
(* Properties of two lexers.                                               *)
(***************************************************************************)
RECURSIVE Alone(_, _)
\* what the first n nextToken calls return on a lexer that is the only one,
\* and the lexer they leave
Alone(lx, n) ==
    IF n = 0 THEN [l |-> lx, out |-> <<>>]
    ELSE LET r == nextToken(lx)
             first == [kind |-> r.kind, tk |-> r.tk, err |-> r.err]
         IN  IF r.kind \in {"panic", "blocked"} THEN [l |-> r.l, out |-> <<first>>]
             ELSE LET rest == Alone(r.l, n - 1)
                  IN  [l |-> rest.l, out |-> <<first>> \o rest.out]

SecondBackup(i) ==
    /\ i >= 2
    /\ out[i].op = "Backup"
    /\ out[i - 1].op = "Backup"
    /\ out[i - 1].err = NoErr

\* C26: after a Backup that returned nil, a Backup with no Shift in between
\* returns an error and leaves the offset where it was, also when the Shift
\* that was undone had returned the synthetic EOF rune.
C26_OnlyOneBackup ==
    \A i \in 1..Len(out) :
        SecondBackup(i) => out[i].err # NoErr /\ out[i].to = out[i].from

\* call i is a Backup that directly follows a Shift
ShiftThenBackup(i) ==
    /\ i >= 2
    /\ out[i].op = "Backup"
    /\ out[i - 1].op = "Shift"

\* C27: a Shift directly followed by a Backup leaves the offset where it was
\* before the Shift, and the Backup returns nil: the Shift of a rune moves the
\* offset by the rune's 1 to 4 bytes and the Backup moves it back by as many;
\* at the end of the input neither call moves it.
C27_ShiftBackupRestores ==
    \A i \in 1..Len(out) :
        ShiftThenBackup(i) =>
            /\ out[i].err = NoErr
            /\ out[i].to = out[i - 1].from
            /\ out[i - 1].to - out[i - 1].from \in 0..4
            /\ out[i - 1].atEnd <=> out[i - 1].to = out[i - 1].from
            /\ out[i - 1].atEnd => out[i].to = out[i].from /\ out[i - 1].r = RuneEOF

\* C27: a rune of four bytes that was not the first of the buffer was read
\* and put back
C27_Witness ==
    /\ Len(out) >= 3
    /\ ShiftThenBackup(Len(out))
    /\ out[Len(out) - 1].from > 0
    /\ out[Len(out) - 1].to = out[Len(out) - 1].from + 4
    /\ out[Len(out)].to = out[Len(out) - 1].from

(***************************************************************************)
(* More properties of the lexer.                                           *)
(***************************************************************************)
\* call i returned a token that is not the eofToken
NonEof(i) == out[i].kind = "token" /\ out[i].tk.Type # "eofToken"

\* call i returned the eofToken or an error
Ended(i) ==
    \/ out[i].kind = "error"
    \/ out[i].kind = "token" /\ out[i].tk.Type = "eofToken"

\* C28: every nextToken call ends (none waits on the token channel, and none
\* panics unless an error was returned before it); a call that returns a
\* token other than the eofToken has consumed at least one rune; so the
\* tokens returned before the eofToken or an error are at most as many as
\* the input has runes, and the eofToken or an error comes within one call
\* more than the input has runes.
C28_Progress ==
    /\ \A i \in 1..Len(out) :
          /\ out[i].kind # "blocked"
          /\ out[i].kind = "panic" => i >= 2 /\ out[i - 1].kind = "error"
          /\ NonEof(i) => out[i].to > out[i].from
          /\ (\A j \in 1..i : NonEof(j)) => i <= Len(l.source)
    /\ Len(out) > Len(l.source) => \E i \in 1..(Len(l.source) + 1) : Ended(i)

\* C28: an input of three runes gave three tokens, one for each rune, and
\* then the eofToken
C28_Witness ==
    /\ Len(l.source) = 3
    /\ Len(out) = 4
    /\ \A i \in 1..3 : NonEof(i) /\ out[i].to = out[i].from + 1
    /\ out[4].kind = "token" /\ out[4].tk.Type = "eofToken"
    /\ out[1].tk.Type = "greaterThanToken"

\* call i was made in lexStartState with > or < as the next rune
StartsAngle(i) ==
    /\ out[i].st = "lexStartState"
    /\ out[i].from < Len(l.source)
    /\ l.source[out[i].from + 1] \in {">", "<"}

\* the rune after the one call i started at is "="
EqualFollows(i) ==
    out[i].from + 2 <= Len(l.source) /\ l.source[out[i].from + 2] = "="

\* the token types of > and < alone, and of >= and <=
AngleType(r) == IF r = ">" THEN "greaterThanToken" ELSE "lessThanToken"
AngleEqualType(r) ==
    IF r = ">" THEN "greaterThanOrEqualToken" ELSE "lessThanOrEqualToken"

\* what the first nextToken call returns on the input s
FirstOf(s) ==
    LET r == nextToken(newLexer(s)) IN [kind |-> r.kind, tk |-> r.tk, err |-> r.err]

\* C29: > or < followed by = is returned as the one token >= or <=, and the
\* reader is past both runes; followed by anything else, or by nothing, it
\* is returned as > or <, the reader is past that one rune only, and the
\* next call returns what the rest of the input after the > or < begins
\* with: the rune looked at is neither lost nor read twice.
C29_TrailingEqual ==
    \A i \in 1..Len(out) :
        StartsAngle(i) =>
            LET r == l.source[out[i].from + 1]
            IN  /\ out[i].kind = "token"
                /\ IF EqualFollows(i)
                   THEN /\ out[i].tk = Token(AngleEqualType(r), <<r, "=">>)
                        /\ out[i].to = out[i].from + 2
                   ELSE /\ out[i].tk = Token(AngleType(r), <<r>>)
                        /\ out[i].to = out[i].from + 1
                /\ i < Len(out) =>
                      LET next == FirstOf(SubSeq(l.source, out[i].to + 1, Len(l.source)))
                      IN  /\ out[i + 1].from = out[i].to
                          /\ out[i + 1].kind = next.kind
                          /\ out[i + 1].tk = next.tk
                          /\ out[i + 1].err = next.err

\* C29: < was followed by a rune other than =, and that rune began the next
\* token
C29_Witness ==
    /\ Len(out) >= 2
    /\ StartsAngle(1)
    /\ ~EqualFollows(1)
    /\ Len(l.source) >= 2
    /\ out[1].tk = Token("lessThanToken", <<"<">>)
    /\ out[2].kind = "token"
    /\ out[2].tk = Token("stringToken", <<"x">>)
    /\ out[2].from = 1

\* call i was made in lexStartState with a whitespace rune as the next rune
StartsSpace(i) ==
    /\ out[i].st = "lexStartState"
    /\ out[i].from < Len(l.source)
    /\ isSpace(l.source[out[i].from + 1])

\* the runes from+1 .. to are a maximal run of whitespace
MaximalRun(from, to) ==
    /\ to > from
    /\ \A k \in (from + 1)..to : isSpace(l.source[k])
    /\ to < Len(l.source) => ~isSpace(l.source[to + 1])

IsWhitespaceToken(i) == out[i].kind = "token" /\ out[i].tk.Type = "whitespaceToken"

\* C30: a maximal run of space, tab, CR and LF runes that the lexer meets
\* outside a quoted string is returned as one whitespaceToken with an empty
\* value, and a whitespaceToken is returned for nothing else; no two
\* whitespaceTokens follow each other.
C30_OneWhitespaceToken ==
    /\ \A i \in 1..Len(out) :
          /\ StartsSpace(i) =>
                /\ out[i].kind = "token"
                /\ out[i].tk = Token("whitespaceToken", <<>>)
                /\ MaximalRun(out[i].from, out[i].to)
          /\ IsWhitespaceToken(i) => StartsSpace(i)
    /\ \A i \in 1..(Len(out) - 1) : ~(IsWhitespaceToken(i) /\ IsWhitespaceToken(i + 1))

\* C30: a tab, a CR and a LF between two words came out as one
\* whitespaceToken
C30_Witness ==
    /\ Len(out) >= 3
    /\ out[1].tk = Token("stringToken", <<"x">>)
    /\ IsWhitespaceToken(2)
    /\ out[2].tk.Value = <<>>
    /\ out[2].to - out[2].from = 2
    /\ l.source[2] # l.source[3]
    /\ out[3].kind = "token"
    /\ out[3].tk.Type # "whitespaceToken"

\* the runes that end unquoted text
StructuralRunes == {"=", ">", "<", "!", "(", ")", "%"}
WhitespaceRunes == {" ", "\t", "\r", "\n"}
EndsText(r) == r \in StructuralRunes \cup WhitespaceRunes

\* call i was made in lexStartState with a rune of unquoted text as the next
\* rune
StartsText(i) ==
    /\ out[i].st = "lexStartState"
    /\ out[i].from < Len(l.source)
    /\ ~EndsText(l.source[out[i].from + 1])
    /\ l.source[out[i].from + 1] # DQuote

\* C31: the token lexed from unquoted text holds no whitespace and none of
\* = > < ! ( ) %: it is the text up to, and without, the first such rune or
\* the end of the input (and, or in any letter case come out as the andToken
\* and the orToken), and the next call returns what the input from that rune
\* on begins with.
C31_UnquotedText ==
    \A i \in 1..Len(out) :
        StartsText(i) =>
            LET text == SubSeq(l.source, out[i].from + 1, out[i].to)
            IN  /\ out[i].kind = "token"
                /\ out[i].tk.Type \in {"stringToken", "andToken", "orToken"}
                /\ \A k \in 1..Len(out[i].tk.Value) : ~EndsText(out[i].tk.Value[k])
                /\ out[i].to > out[i].from
                /\ \A k \in 1..Len(text) : ~EndsText(text[k])
                /\ out[i].to < Len(l.source) => EndsText(l.source[out[i].to + 1])
                /\ out[i].tk.Type = "stringToken" => out[i].tk.Value = text
                /\ i < Len(out) =>
                      LET next == FirstOf(SubSeq(l.source, out[i].to + 1, Len(l.source)))
                      IN  /\ out[i + 1].kind = next.kind
                          /\ out[i + 1].tk = next.tk
                          /\ out[i + 1].err = next.err

\* C31: unquoted text was followed by a "%", which came out as the next token
C31_Witness ==
    /\ Len(out) >= 2
    /\ StartsText(1)
    /\ out[1].tk = Token("stringToken", <<"x">>)
    /\ Len(l.source) >= 2
    /\ l.source[2] = "%"
    /\ out[2].tk = Token("containsToken", <<"%">>)

\* C32: every call of unread comes directly after a call of read: unread is
\* never called twice in a row, nor before the first read, so one rune of
\* pushback is all the lexer asks of its reader.
C32_OneRuneOfPushback ==
    /\ ~l.unpaired
    /\ l.lastOp = "none" => out = <<>>

\* C32: the rune read after a "<" was put back, and the next call read it
\* again and put back the rune after it
C32_Witness ==
    /\ Len(out) = 2
    /\ out[1].tk = Token("lessThanToken", <<"<">>)
    /\ out[1].to = 1
    /\ out[2].tk = Token("stringToken", <<"x">>)
    /\ out[2].to = 2
    /\ Len(l.source) = 3
    /\ l.lastOp = "unread"
    /\ ~l.unpaired

\* C33: no emit finds the token channel full, so no nextToken call waits on
\* it: the channel is empty when nextToken returns, hence when the next
\* state function emits, and a state function emits once at most.
C33_EmitNeverBlocks ==
    /\ ~l.blocked
    /\ l.tokens = <<>>
    /\ \A i \in 1..Len(out) : out[i].kind # "blocked"

\* C33: four calls returned four tokens, the last two of them the eofToken
\* that lexEofState emits at each call
C33_Witness ==
    /\ Len(out) = 4
    /\ \A i \in 1..4 : out[i].kind = "token"
    /\ out[1].tk.Type = "stringToken"
    /\ out[2].tk.Type = "whitespaceToken"
    /\ out[3].tk.Type = "eofToken"
    /\ out[4].tk.Type = "eofToken"
    /\ out[4].st = "lexEofState"
    /\ l.tokens = <<>>

\* call i was made in lexStartState with the rune r as the next rune
StartsWith(i, r) ==
    /\ out[i].st = "lexStartState"
    /\ out[i].from < Len(l.source)
    /\ l.source[out[i].from + 1] = r

\* C34: the stack current is empty whenever lexStartState is entered, which
\* is when a nextToken call starts in that state; so a paren met there comes
\* out as startLogicalExprToken "(" or endLogicalExprToken ")", and these two
\* tokens never carry another value, whatever was lexed before them.
C34_ParenValues ==
    /\ l.state = "lexStartState" => l.current = <<>>
    /\ \A i \in 1..Len(out) :
          /\ StartsWith(i, "(") =>
                out[i].kind = "token" /\ out[i].tk = Token("startLogicalExprToken", <<"(">>)
          /\ StartsWith(i, ")") =>
                out[i].kind = "token" /\ out[i].tk = Token("endLogicalExprToken", <<")">>)
          /\ (out[i].kind = "token" /\ out[i].tk.Type = "startLogicalExprToken")
                => out[i].tk.Value = <<"(">>
          /\ (out[i].kind = "token" /\ out[i].tk.Type = "endLogicalExprToken")
                => out[i].tk.Value = <<")">>

\* C34: a "(" and a ")" that followed a word came out with their own rune
\* as the value
C34_Witness ==
    /\ Len(out) >= 3
    /\ out[1].tk = Token("stringToken", <<"x">>)
    /\ StartsWith(2, "(")
    /\ out[2].tk = Token("startLogicalExprToken", <<"(">>)
    /\ StartsWith(3, ")")
    /\ out[3].tk = Token("endLogicalExprToken", <<")">>)
    /\ l.current = <<>>

(***************************************************************************)
(* More properties of root.                                                *)
(***************************************************************************)
\* C35: a logicalExpr that root returns without an error, be it the node it
\* was given or one it reached by unwrapping nodes without an operator, has
\* an operator, a left side and a right side.
C35_RootReturnsWholeNode ==
    (res.kind = "root" /\ res.err = NoErr /\ e.type = "logicalExpr")
        => /\ e.logicalOp # <<>>
           /\ e.leftExpr # NoExpr
           /\ e.rightExpr # NoExpr

(***************************************************************************)
(* More properties of the cursor.                                          *)
(***************************************************************************)
\* C36: after any calls of Shift, Backup, Peek, Expect, Some and Reduce,
\* 0 <= pos <= off <= len(buf); so Reduce never slices out of range and
\* Len() is not negative.
C36_CursorInRange ==
    /\ 0 <= l.pos
    /\ l.pos <= l.off
    /\ l.off <= Len(l.buf)
    /\ \A i \in 1..Len(out) : out[i].kind # "panic"

\* C37: Peek leaves the offset where it was, and a Backup after Shift, Peek
\* returns what the Backup after the Shift alone returns and leaves the
\* offset where that Backup leaves it.
C37_PeekHasNoEffect ==
    \A i \in 1..Len(out) :
        /\ out[i].op = "Peek" => out[i].to = out[i].from
        /\ (i >= 3 /\ out[i].op = "Backup" /\ out[i - 1].op = "Peek"
               /\ out[i - 2].op = "Shift")
              => LET direct == Backup(Shift(out[i - 2].c).l)
                 IN  out[i].err = direct.err /\ out[i].to = direct.l.off

\* C38: every call of Some returns.
C38_SomeTerminates ==
    \A i \in 1..Len(out) : out[i].op = "Some" => out[i].kind = "returns"

\* C39: Shift returns RuneEOF exactly when the input is exhausted at the
\* call.
C39_EofOnlyAtEnd ==
    \A i \in 1..Len(out) :
        out[i].op = "Shift" => (out[i].r = RuneEOF <=> out[i].atEnd)

====
